---- MODULE Spec2Model ----
(***************************************************************************)
(* Model of modernizer/parser.py: the single forward pass of               *)
(* parse_legacy_docx_by_sequence over the non-blank paragraphs of a legacy *)
(* document, which builds the section tree, and the revision-history       *)
(* reconciliation that follows it.                                         *)
(*                                                                         *)
(* Texts are TLA+ strings.  The regular expressions and the string         *)
(* methods of the source are operators that read a string character by     *)
(* character, so a heading is classified by what it spells.                *)
(***************************************************************************)
EXTENDS Integers, Sequences, FiniteSets, TLC

(***************************************************************************)
(* Characters and the str methods the parser uses                          *)
(***************************************************************************)
UpperChars == "ABCDEFGHIJKLMNOPQRSTUVWXYZ"

LowerChars == "abcdefghijklmnopqrstuvwxyz"

DigitChars == "0123456789"

CharAt(s, i) == SubSeq(s, i, i)

DigitSet == { CharAt(DigitChars, i) : i \in 1..Len(DigitChars) }

UpperSet == { CharAt(UpperChars, i) : i \in 1..Len(UpperChars) }

\* the lower-case letter of each upper-case letter
LowerOf ==
    [c \in UpperSet |->
        CharAt(LowerChars, CHOOSE i \in 1..Len(UpperChars) : CharAt(UpperChars, i) = c)]

IsDigit(c) == c \in DigitSet

IsSpace(c) == c \in {" ", "\t", "\n", "\r"}

\* str.lower() on one character
LowerChar(c) == IF c \in UpperSet THEN LowerOf[c] ELSE c

RECURSIVE LowerFrom(_, _)
LowerFrom(s, i) ==
    IF i > Len(s) THEN "" ELSE LowerChar(CharAt(s, i)) \o LowerFrom(s, i + 1)

\* str.lower()
Lower(s) == LowerFrom(s, 1)

\* s[i:] (1-based i)
Drop(s, i) == SubSeq(s, i, Len(s))

\* index of the first character at or after i that is not white space (Len(s)+1 if none)
RECURSIVE SkipSpaces(_, _)
SkipSpaces(s, i) ==
    IF i <= Len(s) /\ IsSpace(CharAt(s, i)) THEN SkipSpaces(s, i + 1) ELSE i

\* index of the first character at or after i that is not a digit
RECURSIVE SkipDigits(_, _)
SkipDigits(s, i) ==
    IF i <= Len(s) /\ IsDigit(CharAt(s, i)) THEN SkipDigits(s, i + 1) ELSE i

\* index of the first character at or after i that is neither a digit nor a dot
RECURSIVE SkipDigitsDots(_, _)
SkipDigitsDots(s, i) ==
    IF i <= Len(s) /\ (IsDigit(CharAt(s, i)) \/ CharAt(s, i) = ".")
    THEN SkipDigitsDots(s, i + 1) ELSE i

\* index of the last character at or before i that is not white space (0 if none)
RECURSIVE SkipSpacesBack(_, _)
SkipSpacesBack(s, i) ==
    IF i >= 1 /\ IsSpace(CharAt(s, i)) THEN SkipSpacesBack(s, i - 1) ELSE i

\* str.strip()
Strip(s) == SubSeq(s, SkipSpaces(s, 1), SkipSpacesBack(s, Len(s)))

\* str.startswith(prefix)
StartsWith(s, prefix) ==
    Len(s) >= Len(prefix) /\ SubSeq(s, 1, Len(prefix)) = prefix

\* sub in s
Contains(s, sub) ==
    \E i \in 1..(Len(s) - Len(sub) + 1) : SubSeq(s, i, i + Len(sub) - 1) = sub

\* s.split(":", 1)[1] for s containing a colon: what follows the first colon
AfterFirstColon(s) ==
    Drop(s, 1 + CHOOSE i \in 1..Len(s) :
                  /\ CharAt(s, i) = ":"
                  /\ \A j \in 1..(i - 1) : CharAt(s, j) # ":")

(***************************************************************************)
(* Utility functions and regex helpers                                     *)
(***************************************************************************)
\* normalize(text) = text.strip().lower()
normalize(text) == Lower(Strip(text))

\* NUM_PREFIX_PATTERN = ^[\d\.]+\s*(.*)$ ; group(1).strip() on a match, else text.strip()
strip_numeric_prefix(text) ==
    LET t == Strip(text)
        k == SkipDigitsDots(t, 1)
    IN  IF k > 1 THEN Strip(Drop(t, SkipSpaces(t, k))) ELSE t

\* SUBCLAUSE_PATTERN = ^\s*\d+\.\d+
SUBCLAUSE_PATTERN(raw) ==
    LET a == SkipSpaces(raw, 1)
        b == SkipDigits(raw, a)
    IN  /\ b > a
        /\ b <= Len(raw) /\ CharAt(raw, b) = "."
        /\ SkipDigits(raw, b + 1) > b + 1

\* SUBSUBCLAUSE_PATTERN = ^\s*\d+\.\d+\.\d+
SUBSUBCLAUSE_PATTERN(raw) ==
    LET a == SkipSpaces(raw, 1)
        b == SkipDigits(raw, a)
        c == SkipDigits(raw, b + 1)
    IN  /\ b > a
        /\ b <= Len(raw) /\ CharAt(raw, b) = "."
        /\ c > b + 1
        /\ c <= Len(raw) /\ CharAt(raw, c) = "."
        /\ SkipDigits(raw, c + 1) > c + 1

\* SINGLE_LEVEL_PATTERN = ^(\d+)\.\s+
SINGLE_LEVEL_PATTERN(raw) ==
    LET b == SkipDigits(raw, 1)
    IN  /\ b > 1
        /\ b <= Len(raw) /\ CharAt(raw, b) = "."
        /\ SkipSpaces(raw, b + 1) > b + 1

\* ^w1\s+w2 with re.IGNORECASE
TwoWordsPattern(s, w1, w2) ==
    LET low == Lower(s)
        a == Len(w1) + 1
        b == SkipSpaces(low, a)
    IN  /\ StartsWith(low, w1)
        /\ b > a
        /\ StartsWith(Drop(low, b), w2)

\* PROCESS_DESIGNEE_PATTERN = ^process\s+designee, re.IGNORECASE
PROCESS_DESIGNEE_PATTERN(s) == TwoWordsPattern(s, "process", "designee")

\* PURPOSE_AND_SCOPE_PATTERN = ^purpose\s+and\s+scope, re.IGNORECASE
PURPOSE_AND_SCOPE_PATTERN(s) ==
    /\ TwoWordsPattern(s, "purpose", "and")
    /\ LET low == Lower(s)
           a == SkipSpaces(low, Len("purpose") + 1) + Len("and")
           b == SkipSpaces(low, a)
       IN  b > a /\ StartsWith(Drop(low, b), "scope")

(***************************************************************************)
(* Ordered top-level keywords; next_top_idx is the 0-based Python index    *)
(***************************************************************************)
TOP_LEVEL_SEQUENCE ==
    << "purpose", "scope", "definitions", "process owner", "procedures",
       "references", "related documents", "records", "policy reference",
       "revisions" >>

\* TOP_LEVEL_SEQUENCE[i] for a Python index i
Keyword(i) == TOP_LEVEL_SEQUENCE[i + 1]

(***************************************************************************)
(* State                                                                   *)
(***************************************************************************)
VARIABLES
    pc,                        \* "load", "pass", "flush", "revision", "done", "failed"
    paras,                     \* the non-blank paragraphs of the document up to and
                               \* including the first one that starts with "definitions"
                               \* and those the author wrote next; the whole document
                               \* when none starts with "definitions"
    vocab,                     \* the paragraphs the rest of the document is written with
    consumed,                  \* the paragraphs of `remaining` the loop has taken so far
    purpose_scope_block,
    sections,
    current_top,               \* 0 (None) or the index in sections of the node
    current_sub,               \* << >> (None) or the path <<top, child>> of the node
    current_subsub,            \* << >> (None) or the path <<top, child, grandchild>>
    next_top_idx,
    expect_owner_child,
    capturing_owner_block,
    owner_buffer,
    capturing_designee_block,
    designee_buffer,
    doc_tables,                \* doc.tables, a sequence of tables, once line 52 has read
                               \* it; << >> before
    revision_history,          \* the returned revision_history; [type |-> "none"] before
                               \* the return
    folder_pc,                 \* process_folder: "idle", "start", "loop", "returned"
    docx_files,                \* list(input_folder.glob("*.docx"))
    file_idx,                  \* idx of `for idx, legacy_file in enumerate(docx_files, 1)`
    status_var,
    messages,                  \* the messagebox calls made so far
    outputs,                   \* the files populate_template has written, by idx
    selected_dir,              \* App.selected_dir: "none" (None), "valid" (a folder that
                               \* exists), "missing" (a folder that exists no longer)
    select_btn,                \* state of the Browse button: "normal" or "disabled"
    process_btn,               \* state of the Process button: "normal" or "disabled"
    threads,                   \* the threads running App._run_processing
    files,                     \* the output folder: file name |-> content
    requested,                 \* the name of the output_path passed to populate_template
    output_path,               \* populate_template: the name of output_path
    candidate,
    counter,
    save_pc,                   \* "idle", "check", "probe", "save", "done"
    intro,                     \* _fit_intro_sections_to_page: doc.paragraphs[:def_idx]
    has_definitions,           \* def_idx is not None
    rev_font,                  \* the font size of the runs of the Revision-History
                               \* table, 0 when _find_revision_table(doc) is None
    fit_pc                     \* "idle", "call", "done"

parse_vars ==
    << sections, current_top, current_sub, current_subsub, next_top_idx,
       expect_owner_child, capturing_owner_block, owner_buffer,
       capturing_designee_block, designee_buffer >>

folder_vars == << folder_pc, docx_files, file_idx, status_var, messages, outputs >>

gui_vars == << selected_dir, select_btn, process_btn, threads >>

save_vars == << files, requested, output_path, candidate, counter, save_pc >>

fit_vars == << intro, has_definitions, rev_font, fit_pc >>

populate_vars == << save_vars, fit_vars >>

app_vars == << folder_vars, gui_vars, populate_vars >>

vars ==
    << pc, paras, vocab, consumed, purpose_scope_block, parse_vars, doc_tables,
       revision_history, app_vars >>

None == << >>

\* {"heading": heading, "content": content, "children": []}; para is not a field of the
\* source's dict: it records the number of the paragraph at which the node was attached
Node(heading, content, para) ==
    [heading |-> heading, content |-> content, children |-> << >>, para |-> para]

\* the parser's locals as one value, so that a rule is a function from state to state;
\* para_no is the number of the paragraph being classified, raised whether an
\* exception (subscripting None) has ended the pass
ParseState ==
    [sections |-> sections, current_top |-> current_top, current_sub |-> current_sub,
     current_subsub |-> current_subsub, next_top_idx |-> next_top_idx,
     expect_owner_child |-> expect_owner_child,
     capturing_owner_block |-> capturing_owner_block, owner_buffer |-> owner_buffer,
     capturing_designee_block |-> capturing_designee_block,
     designee_buffer |-> designee_buffer,
     para_no |-> Len(consumed) + 1, raised |-> FALSE]

Commit(s) ==
    /\ sections' = s.sections
    /\ current_top' = s.current_top
    /\ current_sub' = s.current_sub
    /\ current_subsub' = s.current_subsub
    /\ next_top_idx' = s.next_top_idx
    /\ expect_owner_child' = s.expect_owner_child
    /\ capturing_owner_block' = s.capturing_owner_block
    /\ owner_buffer' = s.owner_buffer
    /\ capturing_designee_block' = s.capturing_designee_block
    /\ designee_buffer' = s.designee_buffer

\* the node a cursor refers to
TopNode(secs, t) == secs[t]

SubNode(secs, path) == secs[path[1]].children[path[2]]

SubSubNode(secs, path) == secs[path[1]].children[path[2]].children[path[3]]

\* normalize(strip_numeric_prefix(node["heading"]))
HeadKey(node) == normalize(strip_numeric_prefix(node.heading))

(***************************************************************************)
(* Faulty variants of create_top, used to show that C9, C10, C14 and C16    *)
(* depend on it                                                            *)
(***************************************************************************)
\* create_top without line 137's reset of current_sub and current_subsub
create_top_KeepCursor(s, heading) ==
    LET node == Node(heading, << >>, s.para_no)
        stripped_head == normalize(strip_numeric_prefix(heading))
    IN  [s EXCEPT
            !.sections = Append(@, node),
            !.current_top = Len(s.sections) + 1,
            !.expect_owner_child = FALSE,
            !.capturing_owner_block = FALSE,
            !.owner_buffer = << >>,
            !.capturing_designee_block = FALSE,
            !.designee_buffer = << >>,
            !.next_top_idx =
                IF /\ s.next_top_idx < Len(TOP_LEVEL_SEQUENCE)
                   /\ StartsWith(stripped_head, Keyword(s.next_top_idx))
                THEN @ + 1 ELSE @]

\* create_top with sections.insert(0, node) in place of sections.append(node)
create_top_Prepend(s, heading) ==
    LET node == Node(heading, << >>, s.para_no)
        stripped_head == normalize(strip_numeric_prefix(heading))
    IN  [s EXCEPT
            !.sections = << node >> \o @,
            !.current_top = 1,
            !.current_sub = None,
            !.current_subsub = None,
            !.expect_owner_child = FALSE,
            !.capturing_owner_block = FALSE,
            !.owner_buffer = << >>,
            !.capturing_designee_block = FALSE,
            !.designee_buffer = << >>,
            !.next_top_idx =
                IF /\ s.next_top_idx < Len(TOP_LEVEL_SEQUENCE)
                   /\ StartsWith(stripped_head, Keyword(s.next_top_idx))
                THEN @ + 1 ELSE @]

\* create_top without the resets of lines 140-144: a capture in progress goes on under
\* the new top-level node
create_top_KeepCapture(s, heading) ==
    LET node == Node(heading, << >>, s.para_no)
        stripped_head == normalize(strip_numeric_prefix(heading))
    IN  [s EXCEPT
            !.sections = Append(@, node),
            !.current_top = Len(s.sections) + 1,
            !.current_sub = None,
            !.current_subsub = None,
            !.next_top_idx =
                IF /\ s.next_top_idx < Len(TOP_LEVEL_SEQUENCE)
                   /\ StartsWith(stripped_head, Keyword(s.next_top_idx))
                THEN @ + 1 ELSE @]

\* create_top advancing the pointer at every new top-level node, whatever its heading
create_top_AlwaysAdvance(s, heading) ==
    LET node == Node(heading, << >>, s.para_no)
    IN  [s EXCEPT
            !.sections = Append(@, node),
            !.current_top = Len(s.sections) + 1,
            !.current_sub = None,
            !.current_subsub = None,
            !.expect_owner_child = FALSE,
            !.capturing_owner_block = FALSE,
            !.owner_buffer = << >>,
            !.capturing_designee_block = FALSE,
            !.designee_buffer = << >>,
            !.next_top_idx =
                IF s.next_top_idx < Len(TOP_LEVEL_SEQUENCE) THEN @ + 1 ELSE @]

(***************************************************************************)
(* create_top                                                              *)
(***************************************************************************)
create_top(s, heading) ==
    LET node == Node(heading, << >>, s.para_no)
        stripped_head == normalize(strip_numeric_prefix(heading))
    IN  [s EXCEPT
            !.sections = Append(@, node),
            !.current_top = Len(s.sections) + 1,
            !.current_sub = None,
            !.current_subsub = None,
            !.expect_owner_child = FALSE,
            !.capturing_owner_block = FALSE,
            !.owner_buffer = << >>,
            !.capturing_designee_block = FALSE,
            !.designee_buffer = << >>,
            !.next_top_idx =
                IF /\ s.next_top_idx < Len(TOP_LEVEL_SEQUENCE)
                   /\ StartsWith(stripped_head, Keyword(s.next_top_idx))
                THEN @ + 1 ELSE @]

(***************************************************************************)
(* Node updates through the cursors                                        *)
(***************************************************************************)
\* current_top["children"].append(child)
AppendTopChild(s, child) ==
    [s EXCEPT !.sections[s.current_top].children = Append(@, child)]

\* the path of the child AppendTopChild has just appended
LastTopChild(s) == << s.current_top, Len(s.sections[s.current_top].children) >>

\* current_top["content"].append(text)
AppendTopContent(s, text) ==
    [s EXCEPT !.sections[s.current_top].content = Append(@, text)]

\* current_sub["content"].append(text)
AppendSubContent(s, text) ==
    [s EXCEPT !.sections[s.current_sub[1]].children[s.current_sub[2]].content =
                  Append(@, text)]

\* current_subsub["content"].append(text)
AppendSubSubContent(s, text) ==
    [s EXCEPT !.sections[s.current_subsub[1]].children[s.current_subsub[2]]
                  .children[s.current_subsub[3]].content = Append(@, text)]

\* for line in buffer: token = line.strip(); if token: current_top["children"].append(...)
RECURSIVE FlushLines(_, _)
FlushLines(s, buffer) ==
    IF buffer = << >> \/ s.raised THEN s
    ELSE LET token == Strip(Head(buffer))
         IN  IF token = "" THEN FlushLines(s, Tail(buffer))
             ELSE IF s.current_top = 0 THEN [s EXCEPT !.raised = TRUE]
             ELSE FlushLines(AppendTopChild(s, Node(token, << >>, s.para_no)),
                             Tail(buffer))

(***************************************************************************)
(* The loop body, lines 153-416.  The rules are listed from the last to    *)
(* the first, since each falls through to the ones below it in the source. *)
(***************************************************************************)
\* lines 154-161: what the loop computes from the paragraph before the rules
Analyse(p) ==
    LET text == Strip(p.text)
        stripped == strip_numeric_prefix(text)
    IN  [text |-> text, raw |-> text, stripped |-> stripped,
         low |-> normalize(stripped), is_bold |-> p.bold]

\* SINGLE_LEVEL_PATTERN.match(raw) and not SUBCLAUSE_PATTERN.match(raw)
SingleNotSub(q) == SINGLE_LEVEL_PATTERN(q.raw) /\ ~SUBCLAUSE_PATTERN(q.raw)

\* next_top_idx < len(TOP_LEVEL_SEQUENCE) and low.startswith(TOP_LEVEL_SEQUENCE[next_top_idx])
MatchesNextKeyword(s, q) ==
    /\ s.next_top_idx < Len(TOP_LEVEL_SEQUENCE)
    /\ StartsWith(q.low, Keyword(s.next_top_idx))

\* is_new_top of the designee, Definitions and Policy Reference rules
IsNewTop(s, q) ==
    \/ s.current_sub = None /\ SingleNotSub(q)
    \/ MatchesNextKeyword(s, q)

\* current_top and normalize(strip_numeric_prefix(current_top["heading"])) == "records"
TopIsRecords(s) ==
    s.current_top # 0 /\ HeadKey(s.sections[s.current_top]) = "records"

\* PlainText testing the cursors from the top down: the line goes to the top-level node
PlainText_ShallowFirst(s, q) ==
    IF s.current_top # 0 THEN AppendTopContent(s, q.text)
    ELSE IF s.current_sub # None THEN AppendSubContent(s, q.text)
    ELSE IF s.current_subsub # None THEN AppendSubSubContent(s, q.text)
    ELSE s

\* PlainText without the `elif current_top` branch: a line is lost when only the top
\* is active
PlainText_NoTop(s, q) ==
    IF s.current_subsub # None THEN AppendSubSubContent(s, q.text)
    ELSE IF s.current_sub # None THEN AppendSubContent(s, q.text)
    ELSE s

\* lines 408-416: plain text is attached to the deepest active node
PlainText(s, q) ==
    IF s.current_subsub # None THEN AppendSubSubContent(s, q.text)
    ELSE IF s.current_sub # None THEN AppendSubContent(s, q.text)
    ELSE IF s.current_top # 0 THEN AppendTopContent(s, q.text)
    ELSE s

\* lines 394-406: other bold line
OtherBold(s, q) ==
    IF ~q.is_bold THEN PlainText(s, q)
    ELSE IF TopIsRecords(s) THEN AppendTopContent(s, q.text)
    ELSE IF s.current_subsub # None THEN AppendSubSubContent(s, q.text)
    ELSE IF s.current_sub # None THEN AppendSubContent(s, q.text)
    ELSE IF s.current_top = 0 THEN [s EXCEPT !.raised = TRUE]
    ELSE LET s1 == AppendTopChild(s, Node(q.text, << >>, s.para_no))
         IN  [s1 EXCEPT !.current_sub = LastTopChild(s1)]

\* SubClause without the Records exception of lines 382-384
SubClause_NoRecords(s, q) ==
    IF ~(q.is_bold /\ SUBCLAUSE_PATTERN(q.raw)) THEN OtherBold(s, q)
    ELSE IF s.current_top # 0
         THEN LET s1 == AppendTopChild(s, Node(q.text, << >>, s.para_no))
              IN  [s1 EXCEPT !.current_sub = LastTopChild(s1),
                             !.current_subsub = None]
    ELSE s

\* lines 381-389: bold sub-clause x.x, content under Records
SubClause(s, q) ==
    IF ~(q.is_bold /\ SUBCLAUSE_PATTERN(q.raw)) THEN OtherBold(s, q)
    ELSE IF TopIsRecords(s) THEN AppendTopContent(s, q.text)
    ELSE IF s.current_top # 0
         THEN LET s1 == AppendTopChild(s, Node(q.text, << >>, s.para_no))
              IN  [s1 EXCEPT !.current_sub = LastTopChild(s1),
                             !.current_subsub = None]
    ELSE s

\* SubSubClause without the cursor assignment of line 375: the new node is attached but
\* current_subsub keeps its value
SubSubClause_KeepCursor(s, q) ==
    IF ~(q.is_bold /\ SUBSUBCLAUSE_PATTERN(q.raw) /\ s.current_sub # None)
    THEN SubClause(s, q)
    ELSE LET t == s.current_sub[1]
             i == s.current_sub[2]
             child == Node(q.text, << >>, s.para_no)
         IN  [s EXCEPT !.sections[t].children[i].children = Append(@, child)]

\* SubSubClause with line 374 appending to the open sub-sub-clause when there is one
SubSubClause_Deeper(s, q) ==
    IF ~(q.is_bold /\ SUBSUBCLAUSE_PATTERN(q.raw) /\ s.current_sub # None)
    THEN SubClause(s, q)
    ELSE LET t == s.current_sub[1]
             i == s.current_sub[2]
             child == Node(q.text, << >>, s.para_no)
         IN  IF s.current_subsub # None
             THEN [s EXCEPT !.sections[t].children[i].children[s.current_subsub[3]].children =
                                Append(@, child)]
             ELSE LET s1 == [s EXCEPT !.sections[t].children[i].children = Append(@, child)]
                  IN  [s1 EXCEPT !.current_subsub =
                          << t, i, Len(s1.sections[t].children[i].children) >>]

\* lines 372-376: bold sub-sub-clause x.x.x under an open sub-clause
SubSubClause(s, q) ==
    IF ~(q.is_bold /\ SUBSUBCLAUSE_PATTERN(q.raw) /\ s.current_sub # None)
    THEN SubClause(s, q)
    ELSE LET t == s.current_sub[1]
             i == s.current_sub[2]
             child == Node(q.text, << >>, s.para_no)
             s1 == [s EXCEPT !.sections[t].children[i].children = Append(@, child)]
         IN  [s1 EXCEPT !.current_subsub =
                 << t, i, Len(s1.sections[t].children[i].children) >>]

\* lines 343-367: POLICY REFERENCE, a bold line is a new child and plain lines attach
PolicyReference(s, q) ==
    IF ~(/\ s.current_top # 0
         /\ StartsWith(HeadKey(s.sections[s.current_top]), "policy reference")
         /\ ~IsNewTop(s, q))
    THEN SubSubClause(s, q)
    ELSE IF q.is_bold
         THEN LET s1 == AppendTopChild(s, Node(q.text, << >>, s.para_no))
              IN  [s1 EXCEPT !.current_sub = LastTopChild(s1)]
    ELSE IF s.current_sub # None THEN AppendSubContent(s, q.text)
    ELSE LET s1 == AppendTopChild(s, Node(q.text, << q.text >>, s.para_no))
         IN  [s1 EXCEPT !.current_sub = LastTopChild(s1)]

\* Definitions with line 333 appending to current_sub["content"] instead of joining the
\* line to current_sub["heading"]
Definitions_ToContent(s, q) ==
    IF ~(/\ s.current_top # 0
         /\ StartsWith(HeadKey(s.sections[s.current_top]), "definitions")
         /\ ~IsNewTop(s, q))
    THEN PolicyReference(s, q)
    ELSE IF Contains(q.text, ":")
         THEN LET s1 == AppendTopChild(s, Node(q.text, << >>, s.para_no))
              IN  [s1 EXCEPT !.current_sub = LastTopChild(s1),
                             !.current_subsub = None]
    ELSE IF s.current_sub # None THEN AppendSubContent(s, q.text)
    ELSE LET s1 == AppendTopChild(s, Node(q.text, << >>, s.para_no))
         IN  [s1 EXCEPT !.current_sub = LastTopChild(s1)]

\* Definitions taking plain paragraphs only: an emphasized one is left to the rules
\* below
Definitions_PlainOnly(s, q) ==
    IF ~(/\ s.current_top # 0
         /\ StartsWith(HeadKey(s.sections[s.current_top]), "definitions")
         /\ ~IsNewTop(s, q)
         /\ ~q.is_bold)
    THEN PolicyReference(s, q)
    ELSE IF Contains(q.text, ":")
         THEN LET s1 == AppendTopChild(s, Node(q.text, << >>, s.para_no))
              IN  [s1 EXCEPT !.current_sub = LastTopChild(s1),
                             !.current_subsub = None]
    ELSE IF s.current_sub # None
         THEN [s EXCEPT !.sections[s.current_sub[1]].children[s.current_sub[2]].heading =
                            (@ \o " ") \o q.text]
    ELSE LET s1 == AppendTopChild(s, Node(q.text, << >>, s.para_no))
         IN  [s1 EXCEPT !.current_sub = LastTopChild(s1)]

\* lines 314-338: DEFINITIONS, a line with a colon is a new child
Definitions(s, q) ==
    IF ~(/\ s.current_top # 0
         /\ StartsWith(HeadKey(s.sections[s.current_top]), "definitions")
         /\ ~IsNewTop(s, q))
    THEN PolicyReference(s, q)
    ELSE IF Contains(q.text, ":")
         THEN LET s1 == AppendTopChild(s, Node(q.text, << >>, s.para_no))
              IN  [s1 EXCEPT !.current_sub = LastTopChild(s1),
                             !.current_subsub = None]
    ELSE IF s.current_sub # None
         THEN [s EXCEPT !.sections[s.current_sub[1]].children[s.current_sub[2]].heading =
                            (@ \o " ") \o q.text]
    ELSE LET s1 == AppendTopChild(s, Node(q.text, << >>, s.para_no))
         IN  [s1 EXCEPT !.current_sub = LastTopChild(s1)]

\* DesigneeStart written by copying the owner arming of lines 228-229 and keeping its
\* `capturing_owner_block = True`
DesigneeStart_KeepOwner(s, q) ==
    IF ~PROCESS_DESIGNEE_PATTERN(q.stripped) THEN Definitions(s, q)
    ELSE LET s1 == create_top(s, "Process Designees")
             remainder == IF Contains(q.stripped, ":")
                          THEN Strip(AfterFirstColon(q.stripped)) ELSE ""
         IN  [s1 EXCEPT !.capturing_owner_block = TRUE,
                        !.capturing_designee_block = TRUE,
                        !.designee_buffer =
                            IF remainder # "" THEN << remainder >> ELSE << >>]

\* lines 298-308: Process-Designee start
DesigneeStart(s, q) ==
    IF ~PROCESS_DESIGNEE_PATTERN(q.stripped) THEN Definitions(s, q)
    ELSE LET s1 == create_top(s, "Process Designees")
             remainder == IF Contains(q.stripped, ":")
                          THEN Strip(AfterFirstColon(q.stripped)) ELSE ""
         IN  [s1 EXCEPT !.capturing_designee_block = TRUE,
                        !.designee_buffer =
                            IF remainder # "" THEN << remainder >> ELSE << >>]

\* lines 288-293: Process-Owner child (single line)
OwnerChild(s, q) ==
    IF ~s.expect_owner_child THEN DesigneeStart(s, q)
    ELSE IF s.current_top = 0 THEN [s EXCEPT !.raised = TRUE]
    ELSE LET s1 == AppendTopChild(s, Node(q.text, << >>, s.para_no))
         IN  [s1 EXCEPT !.current_sub = LastTopChild(s1),
                        !.current_subsub = None,
                        !.expect_owner_child = FALSE]

\* lines 277-283: keyword in sequence starts a new top
KeywordInSequence(s, q) ==
    IF ~MatchesNextKeyword(s, q) THEN OwnerChild(s, q)
    ELSE LET expected == Keyword(s.next_top_idx)
             s1 == create_top(s, q.text)
         IN  IF expected = "process owner"
             THEN [s1 EXCEPT !.expect_owner_child = TRUE] ELSE s1

\* OwnerCapture without the `continue` of line 272: a buffered line is classified by
\* the later rules as well
OwnerCapture_FallThrough(s, q) ==
    IF ~s.capturing_owner_block THEN KeywordInSequence(s, q)
    ELSE IF \/ SingleNotSub(q)
            \/ MatchesNextKeyword(s, q)
            \/ PROCESS_DESIGNEE_PATTERN(q.stripped)
         THEN LET s1 == FlushLines(s, s.owner_buffer)
              IN  IF s1.raised THEN s1
                  ELSE KeywordInSequence(
                           [s1 EXCEPT !.owner_buffer = << >>,
                                      !.capturing_owner_block = FALSE], q)
    ELSE KeywordInSequence([s EXCEPT !.owner_buffer = Append(@, q.text)], q)

\* lines 242-272: in the middle of collecting Process Owner lines
OwnerCapture(s, q) ==
    IF ~s.capturing_owner_block THEN KeywordInSequence(s, q)
    ELSE IF \/ SingleNotSub(q)
            \/ MatchesNextKeyword(s, q)
            \/ PROCESS_DESIGNEE_PATTERN(q.stripped)
         THEN LET s1 == FlushLines(s, s.owner_buffer)
              IN  IF s1.raised THEN s1
                  ELSE KeywordInSequence(
                           [s1 EXCEPT !.owner_buffer = << >>,
                                      !.capturing_owner_block = FALSE], q)
    ELSE [s EXCEPT !.owner_buffer = Append(@, q.text)]

\* SingleLevel with the `current_sub is None` test that is_new_top has at lines 198-202
SingleLevel_NoOpenSub(s, q) ==
    IF ~(s.current_sub = None /\ SingleNotSub(q)) THEN OwnerCapture(s, q)
    ELSE LET stripped_head == normalize(strip_numeric_prefix(q.text))
             s1 == create_top(s, q.text)
         IN  IF StartsWith(stripped_head, "process owner")
             THEN [s1 EXCEPT !.capturing_owner_block = TRUE,
                             !.owner_buffer = << >>]
             ELSE [s1 EXCEPT !.capturing_owner_block = FALSE,
                             !.owner_buffer = << >>,
                             !.capturing_designee_block = FALSE,
                             !.designee_buffer = << >>]

\* lines 222-237: a single-level numeric prefix starts a new top
SingleLevel(s, q) ==
    IF ~SingleNotSub(q) THEN OwnerCapture(s, q)
    ELSE LET stripped_head == normalize(strip_numeric_prefix(q.text))
             s1 == create_top(s, q.text)
         IN  IF StartsWith(stripped_head, "process owner")
             THEN [s1 EXCEPT !.capturing_owner_block = TRUE,
                             !.owner_buffer = << >>]
             ELSE [s1 EXCEPT !.capturing_owner_block = FALSE,
                             !.owner_buffer = << >>,
                             !.capturing_designee_block = FALSE,
                             !.designee_buffer = << >>]

\* lines 197-217: ongoing Process-Designee multi-line block
DesigneeCapture(s, q) ==
    IF ~s.capturing_designee_block THEN SingleLevel(s, q)
    ELSE IF IsNewTop(s, q)
         THEN LET s1 == FlushLines(s, s.designee_buffer)
              IN  IF s1.raised THEN s1
                  ELSE SingleLevel(
                           [s1 EXCEPT !.designee_buffer = << >>,
                                      !.capturing_designee_block = FALSE], q)
    ELSE [s EXCEPT !.designee_buffer = Append(@, q.text)]

\* RevisionHistorySkip tested after the capture rules: inside an owner or designee
\* block the line is left to them
RevisionHistorySkip_Buffered(s, q) ==
    IF /\ StartsWith(q.low, "revision history")
       /\ ~(s.capturing_owner_block \/ s.capturing_designee_block)
    THEN s ELSE DesigneeCapture(s, q)

\* lines 191-192: a "Revision History" line is skipped
RevisionHistorySkip(s, q) ==
    IF StartsWith(q.low, "revision history") THEN s ELSE DesigneeCapture(s, q)

\* lines 181-186: "Policy Reference" heading promoted to a new top
PolicyReferencePromotion(s, q) ==
    IF /\ StartsWith(q.low, "policy reference")
       /\ (q.is_bold \/ SINGLE_LEVEL_PATTERN(q.raw))
    THEN create_top(s, q.text) ELSE RevisionHistorySkip(s, q)

\* RecordsPromotion placed after the capture rules: inside an owner or designee block
\* the heading is left to them
RecordsPromotion_NeedsNoCapture(s, q) ==
    IF /\ StartsWith(q.low, "records")
       /\ (q.is_bold \/ SINGLE_LEVEL_PATTERN(q.raw))
       /\ ~(s.capturing_owner_block \/ s.capturing_designee_block)
    THEN create_top(s, q.text) ELSE PolicyReferencePromotion(s, q)

\* RecordsPromotion without the `continue` of line 173: the promoted paragraph is
\* classified again by the rules below
RecordsPromotion_FallThrough(s, q) ==
    IF /\ StartsWith(q.low, "records")
       /\ (q.is_bold \/ SINGLE_LEVEL_PATTERN(q.raw))
    THEN PolicyReferencePromotion(create_top(s, q.text), q)
    ELSE PolicyReferencePromotion(s, q)

\* lines 168-173: "Records" heading promoted to a new top
RecordsPromotion(s, q) ==
    IF /\ StartsWith(q.low, "records")
       /\ (q.is_bold \/ SINGLE_LEVEL_PATTERN(q.raw))
    THEN create_top(s, q.text) ELSE PolicyReferencePromotion(s, q)

\* one iteration of `for p in remaining`
ClassifyParagraph(s, p) == RecordsPromotion(s, Analyse(p))

(***************************************************************************)
(* After the loop: lines 419-486                                           *)
(***************************************************************************)
\* FlushOwners emptying the buffer without attaching its lines
FlushOwners_Drop(s) ==
    IF s.capturing_owner_block /\ s.current_top # 0 /\ s.owner_buffer # << >>
    THEN [s EXCEPT !.owner_buffer = << >>, !.capturing_owner_block = FALSE]
    ELSE s

\* lines 421-429: flush any buffered owners
FlushOwners(s) ==
    IF s.capturing_owner_block /\ s.current_top # 0 /\ s.owner_buffer # << >>
    THEN [FlushLines(s, s.owner_buffer) EXCEPT !.owner_buffer = << >>,
                                               !.capturing_owner_block = FALSE]
    ELSE s

\* FlushDesignees without line 441: the flag is cleared and the buffer keeps its lines
FlushDesignees_KeepBuffer(s) ==
    IF s.capturing_designee_block /\ s.current_top # 0 /\ s.designee_buffer # << >>
    THEN [FlushLines(s, s.designee_buffer) EXCEPT !.capturing_designee_block = FALSE]
    ELSE s

\* lines 434-442: flush any buffered designees
FlushDesignees(s) ==
    IF s.capturing_designee_block /\ s.current_top # 0 /\ s.designee_buffer # << >>
    THEN [FlushLines(s, s.designee_buffer) EXCEPT !.designee_buffer = << >>,
                                                  !.capturing_designee_block = FALSE]
    ELSE s

\* [cell.text.strip() for cell in row.cells] for row in table.rows
StripRows(table) ==
    [r \in 1..Len(table) |-> [c \in 1..Len(table[r]) |-> Strip(table[r][c])]]

\* extract_revision_history(doc)
extract_revision_history(tables) ==
    IF tables # << >>
    THEN [type |-> "table", rows |-> StripRows(tables[Len(tables)])]
    ELSE [type |-> "written", content |-> << >>]

\* _is_revision(node) for the node of each cursor
IsRevisionHeading(node) == Contains(HeadKey(node), "revision")

SubSubIsRevision(s) ==
    s.current_subsub # None /\ IsRevisionHeading(SubSubNode(s.sections, s.current_subsub))

SubIsRevision(s) ==
    s.current_sub # None /\ IsRevisionHeading(SubNode(s.sections, s.current_sub))

TopIsRevision(s) ==
    s.current_top # 0 /\ IsRevisionHeading(TopNode(s.sections, s.current_top))

\* lines 453-458 and 471-479: the content the revisions node holds
RevisionContent(s) ==
    IF SubSubIsRevision(s) THEN SubSubNode(s.sections, s.current_subsub).content
    ELSE IF SubIsRevision(s) THEN SubNode(s.sections, s.current_sub).content
    ELSE IF TopIsRevision(s) THEN TopNode(s.sections, s.current_top).content
    ELSE << >>

\* the revisions node keeps its lines: the content is copied, not moved
ClearRevisionContent_Keep(s) == s

\* lines 453-458 and 471-479: node["content"] = [] on the revisions node
ClearRevisionContent(s) ==
    IF SubSubIsRevision(s)
    THEN [s EXCEPT !.sections[s.current_subsub[1]].children[s.current_subsub[2]]
                       .children[s.current_subsub[3]].content = << >>]
    ELSE IF SubIsRevision(s)
    THEN [s EXCEPT !.sections[s.current_sub[1]].children[s.current_sub[2]].content = << >>]
    ELSE IF TopIsRevision(s)
    THEN [s EXCEPT !.sections[s.current_top].content = << >>]
    ELSE s

\* lines 447-486: the revision_history that is returned
ReturnedRevisionHistory(s, tables) ==
    LET rev_hist == extract_revision_history(tables)
    IN  IF rev_hist.type = "table" THEN rev_hist
        ELSE [type |-> "written", content |-> RevisionContent(s)]

(***************************************************************************)
(* Step D, lines 96-117: locate "Purpose and Scope" and "Definitions".     *)
(* Indices are Python's (0-based); NoIdx stands for None.                  *)
(***************************************************************************)
NoIdx == 0 - 1

\* lines 97-104: the loop over enumerate(paras) from index idx on, idx_ps being ps so far
RECURSIVE ScanAnchors(_, _, _)
ScanAnchors(ps, idx, ips) ==
    IF idx >= Len(ps) THEN [idx_ps |-> ips, idx_def |-> NoIdx]
    ELSE LET stripped == strip_numeric_prefix(ps[idx + 1].text)
             low == normalize(stripped)
             ips2 == IF ips = NoIdx /\ PURPOSE_AND_SCOPE_PATTERN(stripped) THEN idx ELSE ips
         IN  IF StartsWith(low, "definitions")
             THEN [idx_ps |-> ips2, idx_def |-> idx]
             ELSE ScanAnchors(ps, idx + 1, ips2)

\* idx_ps is None or idx_def is None or idx_def <= idx_ps
AnchorsMissing(a) == a.idx_ps = NoIdx \/ a.idx_def = NoIdx \/ a.idx_def <= a.idx_ps

\* "\n".join(lines)
RECURSIVE JoinLines(_)
JoinLines(lines) ==
    IF lines = << >> THEN ""
    ELSE IF Len(lines) = 1 THEN lines[1]
    ELSE (lines[1] \o "\n") \o JoinLines(Tail(lines))

\* lines 106-114: purpose_scope_block
PurposeScopeBlock(ps) ==
    LET a == ScanAnchors(ps, 0, NoIdx)
    IN  IF AnchorsMissing(a) THEN ""
        ELSE JoinLines([i \in 1..(a.idx_def - a.idx_ps - 1) |->
                            Strip(ps[a.idx_ps + 1 + i].text)])

\* Remaining without the slice of line 117: the pass is given the whole document
Remaining_WholeDocument(ps) == ps

\* lines 110 and 117: remaining = paras[idx_def:], idx_def being len(paras) when no
\* paragraph starts with "definitions"
Remaining(ps) ==
    LET a == ScanAnchors(ps, 0, NoIdx)
        idx_def == IF a.idx_def # NoIdx THEN a.idx_def ELSE Len(ps)
    IN  SubSeq(ps, idx_def + 1, Len(ps))

(***************************************************************************)
(* Documents                                                               *)
(***************************************************************************)
\* the longest `remaining` the pass is given, not counting the paragraphs that the
\* beginning of the document fixes after the first of them
MaxParas == 5

\* A document is written with the paragraphs of one vocabulary, in any order and with
\* repetitions; its length is at most MaxParas.  Each vocabulary gathers the headings
\* and lines of one part of a legacy document, with the headings that close that part.

Plain(t) == [text |-> t, bold |-> FALSE]

Bold(t) == [text |-> t, bold |-> TRUE]

\* remaining[0]: step D stops at the first paragraph that starts with "definitions"
DefinitionsHeads == { Plain("2. Definitions") }

\* the paragraphs that come before it in most documents
PurposeAndScope == << Plain("1. Purpose and Scope"), Plain("Applies to all.") >>

\* a document with every section of TOP_LEVEL_SEQUENCE, and one more
EverySection ==
    << Plain("1. Purpose"), Plain("Scope"), Plain("2. Definitions"),
       Plain("3. Process Owner"), Plain("4. Procedures"), Plain("5. References"),
       Plain("6. Related Documents"), Plain("7. Records"), Plain("8. Policy Reference"),
       Plain("9. Revisions"), Plain("10. Appendix") >>

\* an un-numbered Process Owner heading followed at once by the designees
OwnerThenDesignees ==
    << Plain("2. Definitions"), Plain("Process Owner"), Plain("Process Designees: Carol") >>

\* a numbered Process Designees heading
NumberedDesignees ==
    << Plain("2. Definitions"), Plain("3. Process Owner"), Plain("Alice"),
       Plain("4. Process Designees"), Plain("Carol") >>

\* a Records heading with punctuation, and an emphasized line under it
RecordsWithColon ==
    << Plain("2. Definitions"), Bold("Records:"), Bold("6.1 Retention") >>

\* other ways a document begins: without a paragraph, without the Purpose and Scope
\* heading, with a title and un-numbered headings, with another section first, without a
\* Definitions heading, with the Purpose and Scope heading after Definitions, with
\* every section, and with the owner, designee and Records headings above
DocumentHeads ==
    { << >>,
      EverySection,
      OwnerThenDesignees,
      NumberedDesignees,
      RecordsWithColon,
      << Plain("2. Definitions") >>,
      << Bold("Safety Manual"), Plain("Purpose and Scope"), Plain("Applies to all."),
         Plain(" To everyone. "), Bold("Definitions") >>,
      << Plain("3. Process Owner"), Plain("Alice"), Plain("2. Definitions") >>,
      << Plain("1. Purpose and Scope"), Plain("Applies to all."),
         Plain("3. Process Owner"), Plain("Alice") >>,
      << Bold("Definitions"), Plain("1. Purpose and Scope"), Plain("Applies to all.") >> }

\* what follows those beginnings
VocabAnchors ==
    { Plain("Widget: a thing"), Plain("3. Process Owner"), Plain("Alice"),
      Plain("Records are kept") }

VocabOwner ==
    { Plain("3. Process Owner"), Plain("Alice, Bob"), Plain("4. Procedures"),
      Plain("Process Designees: Carol"), Plain("Dave"), Bold("Records"),
      Plain("Revision History") }

VocabDefinitions ==
    { Plain("Widget: a thing"), Plain("that spins"), Plain("Gadget: another thing"),
      Bold("2.1 Term"), Plain("Process Owner"), Plain("Erin"),
      Plain("3. Process Owner") }

VocabRecords ==
    { Plain("6. Records"), Bold("6.1 Retention"), Bold("6.1.1 X"), Plain("6.1.1 X"),
      Bold("Note"), Plain("Keep five years"), Bold("Policy Reference"),
      Plain("7. Revisions") }

VocabClauses ==
    { Plain("4. Procedures"), Bold("4.1 Step"), Bold("4.1.1 Detail"),
      Plain("4.1.1 Detail"), Bold("Important"), Plain("Do it"),
      Plain("5. References") }

VocabRevisions ==
    { Plain("7. Revisions"), Plain("Rev A initial release"), Bold("Revision notes"),
      Bold("7.1 Revision log"), Bold("7.1.1 Revised by"), Plain("8. Appendix"),
      Bold("Summary") }

VocabKeywords ==
    { Plain("Procedures"), Bold("Procedures"), Plain("Process Owner"), Plain("Erin"),
      Bold("References"), Plain("See the manual"), Plain("4. Procedures") }

Vocabularies ==
    { VocabOwner, VocabDefinitions, VocabRecords, VocabClauses, VocabRevisions,
      VocabKeywords }

OtherTable == << << "Role", "Name" >> >>

RevisionTable == << << "Rev", " Date " >>, << "A", "2020-01-01" >> >>

\* what doc.tables can be
TableChoices == { << >>, << OtherTable, RevisionTable >> }

\* the documents: a beginning and the paragraphs the rest is written with
Documents ==
    { [paras |-> PurposeAndScope \o << d >>, vocab |-> v] :
          d \in DefinitionsHeads, v \in Vocabularies }
    \cup { [paras |-> h, vocab |-> VocabAnchors] : h \in DocumentHeads }

(***************************************************************************)
(* Specification                                                           *)
(***************************************************************************)
\* the locals of parse_legacy_docx_by_sequence when it is entered
ParserEntry ==
    /\ pc = "load"
    /\ consumed = << >>
    /\ purpose_scope_block = ""
    /\ sections = << >>
    /\ current_top = 0
    /\ current_sub = None
    /\ current_subsub = None
    /\ next_top_idx = 2
    /\ expect_owner_child = FALSE
    /\ capturing_owner_block = FALSE
    /\ owner_buffer = << >>
    /\ capturing_designee_block = FALSE
    /\ designee_buffer = << >>
    /\ doc_tables = << >>
    /\ revision_history = [type |-> "none"]

\* process_folder is not running
FolderIdle ==
    /\ folder_pc = "idle"
    /\ docx_files = << >>
    /\ file_idx = 0
    /\ status_var = [text |-> "Idle", idx |-> 0]
    /\ messages = << >>
    /\ outputs = << >>
    /\ selected_dir = "none"
    /\ select_btn = "normal"
    /\ process_btn = "normal"
    /\ threads = 0

\* populate_template is not running
PopulateIdle ==
    /\ files = << >>
    /\ requested = ""
    /\ output_path = ""
    /\ candidate = ""
    /\ counter = 0
    /\ save_pc = "idle"
    /\ intro = << >>
    /\ has_definitions = FALSE
    /\ rev_font = 0
    /\ fit_pc = "idle"

\* one call of parse_legacy_docx_by_sequence on one document
Init ==
    /\ ParserEntry
    /\ PopulateIdle
    /\ \E d \in Documents : paras = d.paras /\ vocab = d.vocab
    /\ FolderIdle

\* lines 76-84: no non-blank paragraph, the early return
NoParagraphs ==
    /\ pc = "load"
    /\ paras = << >>
    /\ \E tables \in TableChoices : doc_tables' = tables
    /\ purpose_scope_block' = ""
    /\ revision_history' = [type |-> "written", content |-> << >>]
    /\ pc' = "done"
    /\ UNCHANGED << paras, vocab, consumed, parse_vars, app_vars >>

\* lines 96-117: step D leaves in `remaining` the paragraphs from the first one that
\* starts with "definitions" on, or nothing when there is none
LocateAnchors ==
    /\ pc = "load"
    /\ paras # << >>
    /\ purpose_scope_block' = PurposeScopeBlock(paras)
    /\ pc' = IF Remaining(paras) # << >> THEN "pass" ELSE "flush"
    /\ UNCHANGED << paras, vocab, consumed, parse_vars, doc_tables, revision_history,
                    app_vars >>

\* lines 153-416: one iteration of the loop
Classify ==
    /\ pc = "pass"
    /\ Len(consumed) < MaxParas + Len(Remaining(paras)) - 1
    /\ \E p \in (IF Len(consumed) < Len(Remaining(paras))
                 THEN { Remaining(paras)[Len(consumed) + 1] } ELSE vocab) :
          LET s == ClassifyParagraph(ParseState, p)
          IN  /\ consumed' = Append(consumed, p)
              /\ Commit(s)
              /\ pc' = IF s.raised THEN "failed" ELSE "pass"
    /\ UNCHANGED << paras, vocab, purpose_scope_block, doc_tables, revision_history,
                    app_vars >>

\* the loop ends
EndOfLoop ==
    /\ pc = "pass"
    /\ Len(consumed) >= Len(Remaining(paras))
    /\ pc' = "flush"
    /\ UNCHANGED << paras, vocab, consumed, purpose_scope_block, parse_vars, doc_tables,
                    revision_history, app_vars >>

\* lines 421-442
FlushBuffers ==
    /\ pc = "flush"
    /\ LET s == FlushDesignees(FlushOwners(ParseState))
       IN  /\ Commit(s)
           /\ pc' = IF s.raised THEN "failed" ELSE "revision"
    /\ UNCHANGED << paras, vocab, consumed, purpose_scope_block, doc_tables,
                    revision_history, app_vars >>

\* lines 447-486
RevisionHistory ==
    /\ pc = "revision"
    /\ \E tables \in TableChoices :
          /\ doc_tables' = tables
          /\ revision_history' = ReturnedRevisionHistory(ParseState, tables)
    /\ Commit(ClearRevisionContent(ParseState))
    /\ pc' = "done"
    /\ UNCHANGED << paras, vocab, consumed, purpose_scope_block, app_vars >>

Next ==
    \/ NoParagraphs
    \/ LocateAnchors
    \/ Classify
    \/ EndOfLoop
    \/ FlushBuffers
    \/ RevisionHistory

Spec == Init /\ [][Next]_vars

\* a step of a call that has neither returned nor raised, seen on pc and consumed
\* alone: every step of Next is one (it changes pc or takes one more paragraph of the
\* document) and one is possible exactly when Next is
Running ==
    /\ pc \notin {"done", "failed"}
    /\ pc' \in {"pass", "flush", "revision", "done", "failed"}
    /\ consumed' \in {consumed}
           \cup { Append(consumed, p) : p \in vocab \cup { paras[i] : i \in 1..Len(paras) } }

\* the call runs to its end: the interpreter keeps executing the function until it
\* returns or raises, so a call that can take a step takes one
\* The runs to the return are followed on the documents in which buffers are flushed:
\* the owner and designee vocabulary and the document heads.
TerminatingInit ==
    /\ ParserEntry
    /\ PopulateIdle
    /\ \E d \in { e \in Documents : e.vocab \in {VocabOwner, VocabAnchors} } :
          paras = d.paras /\ vocab = d.vocab
    /\ FolderIdle

TerminatingSpec == TerminatingInit /\ [][Next]_vars /\ WF_<< pc, consumed >>(Running)

(***************************************************************************)
(* main.py: process_folder, lines 15-42.  Here a document is what the two  *)
(* calls of the loop body do with it: parse_legacy_docx_by_sequence raises *)
(* when Document(path) cannot open the file (parser.py 69-73), and         *)
(* populate_template may raise on a parsed document.                       *)
(***************************************************************************)
\* the most files in a folder
MaxFiles == 4

FileKinds == { "good", "unreadable", "unpopulable" }

\* the folders: every list of at most MaxFiles files
Folders == UNION { [1..n -> FileKinds] : n \in 0..MaxFiles }

\* parse_legacy_docx_by_sequence(legacy_file) raises
ParseRaises(file) == file = "unreadable"

\* populate_template(parsed, TEMPLATE_PATH, output_path) raises
PopulateRaises(file) == file = "unpopulable"

ShowWarning == [call |-> "showwarning", title |-> "No .docx Found", idx |-> 0]

ShowError(i) == [call |-> "showerror", title |-> "Error", idx |-> i]

ShowInfo == [call |-> "showinfo", title |-> "Finished", idx |-> 0]

\* process_folder is called on a folder
FolderInit ==
    /\ ParserEntry
    /\ PopulateIdle
    /\ paras = << >>
    /\ vocab = { }
    /\ folder_pc = "start"
    /\ docx_files \in Folders
    /\ file_idx = 0
    /\ status_var = [text |-> "Ready to process.", idx |-> 0]
    /\ messages = << >>
    /\ outputs = << >>
    /\ selected_dir = "valid"
    /\ select_btn = "disabled"
    /\ process_btn = "disabled"
    /\ threads = 1

parser_vars ==
    << pc, paras, vocab, consumed, purpose_scope_block, parse_vars, doc_tables,
       revision_history >>

\* the state of the modernizer package
modernizer_vars == << parser_vars, populate_vars >>

\* lines 23-26: no .docx file in the folder
NoDocxFound ==
    /\ folder_pc = "start"
    /\ docx_files = << >>
    /\ messages' = Append(messages, ShowWarning)
    /\ folder_pc' = "returned"
    /\ UNCHANGED << docx_files, file_idx, status_var, outputs, modernizer_vars, gui_vars >>

\* line 28: the loop is entered
EnterLoop ==
    /\ folder_pc = "start"
    /\ docx_files # << >>
    /\ folder_pc' = "loop"
    /\ UNCHANGED << docx_files, file_idx, status_var, messages, outputs, modernizer_vars,
                    gui_vars >>

\* lines 28-39: one iteration of the loop
ProcessFile ==
    /\ folder_pc = "loop"
    /\ file_idx < Len(docx_files)
    /\ LET i == file_idx + 1
           legacy_file == docx_files[i]
       IN  /\ file_idx' = i
           /\ status_var' = [text |-> "Processing", idx |-> i]
           /\ IF ParseRaises(legacy_file) \/ PopulateRaises(legacy_file)
              THEN /\ messages' = Append(messages, ShowError(i))
                   /\ outputs' = outputs
                   /\ folder_pc' = "returned"
              ELSE /\ outputs' = Append(outputs, i)
                   /\ messages' = messages
                   /\ folder_pc' = "loop"
    /\ UNCHANGED << docx_files, modernizer_vars, gui_vars >>

\* lines 41-42: every file has been processed
AllDone ==
    /\ folder_pc = "loop"
    /\ file_idx = Len(docx_files)
    /\ status_var' = [text |-> "All done!", idx |-> 0]
    /\ messages' = Append(messages, ShowInfo)
    /\ folder_pc' = "returned"
    /\ UNCHANGED << docx_files, file_idx, outputs, modernizer_vars, gui_vars >>

FolderNext ==
    \/ NoDocxFound
    \/ EnterLoop
    \/ ProcessFile
    \/ AllDone

FolderSpec == FolderInit /\ [][FolderNext]_vars

(***************************************************************************)
(* main.py: class App, lines 45-100.  The handlers browse_folder and       *)
(* on_process run one at a time in the Tk main loop, and only while their  *)
(* button is enabled; _run_processing runs in a background thread, whose   *)
(* steps are those of process_folder followed by the finally block.        *)
(***************************************************************************)
\* the most threads followed at once
MaxThreads == 2

NoFolderWarning == [call |-> "showwarning", title |-> "No Folder", idx |-> 0]

\* the application after App.__init__, lines 46-70
GuiInit ==
    /\ ParserEntry
    /\ PopulateIdle
    /\ paras = << >>
    /\ vocab = { }
    /\ FolderIdle

\* lines 72-77: Browse is clicked and a folder is chosen
browse_folder ==
    /\ select_btn = "normal"
    /\ selected_dir' = "valid"
    /\ status_var' = [text |-> "Ready to process.", idx |-> 0]
    /\ UNCHANGED << folder_pc, docx_files, file_idx, messages, outputs, select_btn,
                    process_btn, threads, modernizer_vars >>

\* the selected folder is deleted or renamed outside the application (line 80 tests
\* for it)
FolderRemoved ==
    /\ selected_dir = "valid"
    /\ selected_dir' = "missing"
    /\ UNCHANGED << folder_vars, select_btn, process_btn, threads, modernizer_vars >>

\* on_process without lines 85-86
on_process_KeepButtons ==
    /\ process_btn = "normal"
    /\ IF selected_dir # "valid"
       THEN /\ messages' = << NoFolderWarning >>
            /\ UNCHANGED << folder_pc, docx_files, file_idx, outputs, threads >>
       ELSE /\ threads < MaxThreads
            /\ threads' = threads + 1
            /\ folder_pc' = "start"
            /\ docx_files' \in Folders
            /\ file_idx' = 0
            /\ messages' = << >>
            /\ outputs' = << >>
    /\ UNCHANGED << status_var, selected_dir, select_btn, process_btn, modernizer_vars >>

\* lines 79-92: Process is clicked; the dialogs and outputs of the run that starts
\* are recorded from empty lists, and docx_files is what line 23 will find
on_process ==
    /\ process_btn = "normal"
    /\ IF selected_dir # "valid"
       THEN /\ messages' = << NoFolderWarning >>
            /\ UNCHANGED << folder_pc, docx_files, file_idx, outputs, select_btn,
                            process_btn, threads >>
       ELSE /\ threads < MaxThreads
            /\ select_btn' = "disabled"
            /\ process_btn' = "disabled"
            /\ threads' = threads + 1
            /\ folder_pc' = "start"
            /\ docx_files' \in Folders
            /\ file_idx' = 0
            /\ messages' = << >>
            /\ outputs' = << >>
    /\ UNCHANGED << status_var, selected_dir, modernizer_vars >>

\* lines 20-29 and 41-42 outside the try of the loop: mkdir, glob, status_var.set or a
\* dialog raises, and the exception leaves process_folder for the finally of line 97
ProcessFolderRaises ==
    /\ folder_pc \in {"start", "loop"}
    /\ folder_pc' = "finally"
    /\ UNCHANGED << docx_files, file_idx, status_var, messages, outputs, gui_vars,
                    modernizer_vars >>

\* lines 96-97: process_folder has returned and the finally block is entered
EnterFinally ==
    /\ folder_pc = "returned"
    /\ threads > 0
    /\ folder_pc' = "finally"
    /\ UNCHANGED << docx_files, file_idx, status_var, messages, outputs, gui_vars,
                    modernizer_vars >>

\* line 99
EnableSelect ==
    /\ folder_pc = "finally"
    /\ select_btn' = "normal"
    /\ folder_pc' = "finally100"
    /\ UNCHANGED << docx_files, file_idx, status_var, messages, outputs, selected_dir,
                    process_btn, threads, modernizer_vars >>

\* line 100, the last statement of the thread
EnableProcess ==
    /\ folder_pc = "finally100"
    /\ process_btn' = "normal"
    /\ threads' = threads - 1
    /\ folder_pc' = "idle"
    /\ UNCHANGED << docx_files, file_idx, status_var, messages, outputs, selected_dir,
                    select_btn, modernizer_vars >>

\* a step of the background thread
ThreadStep ==
    \/ FolderNext
    \/ ProcessFolderRaises
    \/ EnterFinally
    \/ EnableSelect
    \/ EnableProcess

GuiNext ==
    \/ browse_folder
    \/ FolderRemoved
    \/ on_process
    \/ NoDocxFound
    \/ EnterLoop
    \/ ProcessFile
    \/ AllDone
    \/ ProcessFolderRaises
    \/ EnterFinally
    \/ EnableSelect
    \/ EnableProcess

\* the thread started at line 89 is scheduled until it ends, and every dialog it
\* opens is closed
GuiSpec == GuiInit /\ [][GuiNext]_vars /\ WF_vars(ThreadStep)

(***************************************************************************)
(* populate_template.py: step 9 of populate_template, lines 633-649, the   *)
(* save of the document into the output folder.                            *)
(***************************************************************************)
\* the most "-copy" files of one name in the output folder
MaxCopies == 3

\* the position of the last dot of the name that is not its first character, or 0
RECURSIVE LastDot(_, _)
LastDot(name, i) ==
    IF i <= 1 THEN 0
    ELSE IF CharAt(name, i) = "." THEN i
    ELSE LastDot(name, i - 1)

\* Path.suffix
suffix(name) ==
    LET d == LastDot(name, Len(name))
    IN  IF d = 0 THEN "" ELSE SubSeq(name, d, Len(name))

\* Path.stem
stem(name) ==
    LET d == LastDot(name, Len(name))
    IN  IF d = 0 THEN name ELSE SubSeq(name, 1, d - 1)

\* str(n) of a natural number
RECURSIVE IntToStr(_)
IntToStr(n) ==
    IF n < 10 THEN CharAt(DigitChars, n + 1)
    ELSE IntToStr(n \div 10) \o CharAt(DigitChars, (n % 10) + 1)

\* line 641: f"{base}-copy{ext}"
FirstCandidate(base, ext) == (base \o "-copy") \o ext

\* line 644: f"{base}-copy{counter}{ext}"
NumberedCandidate(base, n, ext) == ((base \o "-copy") \o IntToStr(n)) \o ext

\* the output paths populate_template is called with
OutputPaths == { "a.docx", "a-copy.docx" }

\* the names the files of the output folder may have
OutputFolderNames ==
    UNION { { o, FirstCandidate(stem(o), suffix(o)) }
            \cup { NumberedCandidate(stem(o), n, suffix(o)) : n \in 1..MaxCopies }
            : o \in OutputPaths }

\* populate_template has reached step 9 with some files in the output folder
SaveInit ==
    /\ ParserEntry
    /\ paras = << >>
    /\ vocab = { }
    /\ FolderIdle
    /\ intro = << >>
    /\ has_definitions = FALSE
    /\ rev_font = 0
    /\ fit_pc = "idle"
    /\ requested \in OutputPaths
    /\ output_path = requested
    /\ \E S \in SUBSET OutputFolderNames : files = [n \in S |-> "old"]
    /\ candidate = ""
    /\ counter = 0
    /\ save_pc = "check"

\* SaveCheck taking the first candidate without the loop of lines 642-644
SaveCheck_FirstCandidate ==
    /\ save_pc = "check"
    /\ IF output_path \in DOMAIN files
       THEN /\ counter' = 1
            /\ candidate' = FirstCandidate(stem(output_path), suffix(output_path))
            /\ output_path' = candidate'
       ELSE UNCHANGED << counter, candidate, output_path >>
    /\ save_pc' = "save"
    /\ UNCHANGED << files, requested, fit_vars, parser_vars, folder_vars, gui_vars >>

\* lines 636-641: output_path.exists() and the first candidate
SaveCheck ==
    /\ save_pc = "check"
    /\ IF output_path \in DOMAIN files
       THEN /\ counter' = 1
            /\ candidate' = FirstCandidate(stem(output_path), suffix(output_path))
            /\ save_pc' = "probe"
       ELSE /\ save_pc' = "save"
            /\ UNCHANGED << counter, candidate >>
    /\ UNCHANGED << files, requested, output_path, fit_vars, parser_vars, folder_vars,
                    gui_vars >>

\* lines 642-645: one test of `while candidate.exists()`
SaveProbe ==
    /\ save_pc = "probe"
    /\ IF candidate \in DOMAIN files
       THEN /\ counter' = counter + 1
            /\ candidate' = NumberedCandidate(stem(output_path), counter',
                                              suffix(output_path))
            /\ UNCHANGED << output_path, save_pc >>
       ELSE /\ output_path' = candidate
            /\ save_pc' = "save"
            /\ UNCHANGED << counter, candidate >>
    /\ UNCHANGED << files, requested, fit_vars, parser_vars, folder_vars, gui_vars >>

\* line 648: doc.save writes the file, replacing a file of that name
SaveDocument ==
    /\ save_pc = "save"
    /\ files' = [n \in DOMAIN files \cup {output_path} |->
                    IF n = output_path THEN "new" ELSE files[n]]
    /\ save_pc' = "done"
    /\ UNCHANGED << requested, output_path, candidate, counter, fit_vars, parser_vars,
                    folder_vars, gui_vars >>

SaveNext ==
    \/ SaveCheck
    \/ SaveProbe
    \/ SaveDocument

SaveSpec == SaveInit /\ [][SaveNext]_vars

(***************************************************************************)
(* populate_template.py: _fit_intro_sections_to_page, lines 162-213.  A     *)
(* paragraph is the length of its stripped text, whether its parent is a   *)
(* table cell, and then the stripped text lengths of the cells of that     *)
(* table.  doc.paragraphs lists the paragraphs of the document body only,  *)
(* so no paragraph of a document has a cell as its parent.                 *)
(***************************************************************************)
\* the most paragraphs before "Definitions"
MaxIntro == 3

\* the text lengths of the paragraphs before "Definitions": empty, one line, exactly
\* one line, just over one line, and 37, 45 and 69 full lines
IntroLengths == { 0, 1, 80, 81, 2960, 3600, 5520 }

BodyParagraph(n) == [len |-> n, in_cell |-> FALSE, table |-> << >>]

IntroBlocks ==
    UNION { [1..n -> { BodyParagraph(k) : k \in IntroLengths }] : n \in 0..MaxIntro }

\* the font sizes of the Revision-History table of the template; 0 stands for no table
FontSizes == { 0, 11, 12 }

\* max(1, ceil(len(txt) / width)) of a text that is not empty, 0 of an empty one
WrappedLines(n, width) ==
    IF n = 0 THEN 0
    ELSE LET c == (n + width - 1) \div width
         IN  IF c < 1 THEN 1 ELSE c

\* lines 181-188: the paragraphs of the body, 80 characters a line
RECURSIVE ParagraphLines(_)
ParagraphLines(ps) ==
    IF ps = << >> THEN 0
    ELSE (IF Head(ps).in_cell THEN 0 ELSE WrappedLines(Head(ps).len, 80))
         + ParagraphLines(Tail(ps))

\* lines 182-184: the tables of the paragraphs that lie in a cell
seen_tables(ps) == { ps[i].table : i \in { j \in 1..Len(ps) : ps[j].in_cell } }

\* lines 192-198: the cells of one table, 40 characters a line
RECURSIVE CellLines(_)
CellLines(cells) ==
    IF cells = << >> THEN 0
    ELSE WrappedLines(Head(cells), 40) + CellLines(Tail(cells))

RECURSIVE TableLines(_)
TableLines(tbls) ==
    IF tbls = { } THEN 0
    ELSE LET tbl == CHOOSE t \in tbls : TRUE
         IN  CellLines(tbl) + TableLines(tbls \ {tbl})

\* lines 177-199: the estimated line count of the intro block
EstimatedLines(ps) == ParagraphLines(ps) + TableLines(seen_tables(ps))

\* _fit_intro_sections_to_page is called on the populated document
FitInit ==
    /\ ParserEntry
    /\ paras = << >>
    /\ vocab = { }
    /\ FolderIdle
    /\ files = << >>
    /\ requested = ""
    /\ output_path = ""
    /\ candidate = ""
    /\ counter = 0
    /\ save_pc = "idle"
    /\ intro \in IntroBlocks
    /\ has_definitions \in BOOLEAN
    /\ rev_font \in FontSizes
    /\ fit_pc = "call"

\* lines 168-213
fit_intro_sections_to_page ==
    /\ fit_pc = "call"
    /\ LET lines == EstimatedLines(intro)
       IN  rev_font' = IF ~has_definitions THEN rev_font
                       ELSE IF lines <= 38 \/ lines > 70 THEN rev_font
                       ELSE IF rev_font = 0 THEN rev_font
                       ELSE 10
    /\ fit_pc' = "done"
    /\ UNCHANGED << intro, has_definitions, save_vars, parser_vars, folder_vars,
                    gui_vars >>

FitSpec == FitInit /\ [][fit_intro_sections_to_page]_vars

(***************************************************************************)
(* Vocabulary of the properties                                            *)
(***************************************************************************)
\* the headings of a list of nodes
Headings(nodes) == [i \in 1..Len(nodes) |-> nodes[i].heading]

\* the texts of the paragraphs taken so far
ConsumedTexts == [i \in 1..Len(consumed) |-> consumed[i].text]

\* this step is one iteration of the loop, and ThisPara is its paragraph
ParagraphStep == pc = "pass" /\ Len(consumed') = Len(consumed) + 1

ThisPara == consumed'[Len(consumed')]

\* the paragraph is dropped by the "Revision History" rule
IsSkipped(p) ==
    StartsWith(normalize(strip_numeric_prefix(p.text)), "revision history")

\* the step has started a new top-level node
StartsNewTop == Len(sections') > Len(sections)

\* the number of nodes in the tree
RECURSIVE CountNodes(_)
CountNodes(nodes) ==
    IF nodes = << >> THEN 0
    ELSE 1 + CountNodes(Head(nodes).children) + CountNodes(Tail(nodes))

\* the current top is a node of the given kind
TopStartsWith(word) ==
    current_top # 0 /\ StartsWith(HeadKey(sections[current_top]), word)

TopIs(word) == current_top # 0 /\ HeadKey(sections[current_top]) = word

(***************************************************************************)
(* C1. Owner round-trip: after the Definitions heading, the paragraphs     *)
(* "3. Process Owner", "Alice, Bob", "4. Procedures" leave the Process      *)
(* Owner node with exactly the two children "Alice" and "Bob", followed by *)
(* a new top-level Procedures node.                                        *)
(* The code does not do this: "4. Procedures" is taken by the single-level *)
(* rule, whose create_top empties owner_buffer before the owner rule can   *)
(* flush it, and no flush splits a line on commas.                         *)
(***************************************************************************)
C1_OwnerRoundTrip ==
    (/\ Len(consumed) = 4
     /\ consumed[1] \in DefinitionsHeads
     /\ SubSeq(consumed, 2, 4) =
            << Plain("3. Process Owner"), Plain("Alice, Bob"), Plain("4. Procedures") >>)
    => /\ Len(sections) = 3
       /\ StartsWith(HeadKey(sections[2]), "process owner")
       /\ Headings(sections[2].children) = << "Alice", "Bob" >>
       /\ StartsWith(HeadKey(sections[3]), "procedures")

(***************************************************************************)
(* C2. Definitions continuation.                                           *)
(***************************************************************************)
\* the example of the claim
DefinitionsExample ==
    ConsumedTexts = << "2. Definitions", "Widget: a thing", "that spins",
                       "Gadget: another thing" >>
    => /\ Len(sections[1].children) = 2
       /\ sections[1].children[1].heading = "Widget: a thing that spins"
       /\ sections[1].children[1].content = << >>

\* a new child headed by the paragraph is appended to the current top
NewChildOfTop(p) ==
    /\ Len(sections') = Len(sections)
    /\ LET old == sections[current_top].children
           new == sections'[current_top].children
       IN  /\ Len(new) = Len(old) + 1
           /\ SubSeq(new, 1, Len(old)) = old
           /\ new[Len(new)].heading = p.text
           /\ new[Len(new)].content = << >>
           /\ new[Len(new)].children = << >>

\* the paragraph is joined, after one space, to the heading of the last child of the
\* current top, and to nothing else
JoinedToLastChild(p) ==
    LET old == sections[current_top].children
    IN  /\ old # << >>
        /\ sections' = [sections EXCEPT ![current_top].children[Len(old)].heading =
                                            (@ \o " ") \o p.text]

\* C2 as stated: while the current top is a Definitions node, every paragraph with a
\* colon starts a new child and every paragraph without one is joined to the heading
\* of the most recently created child
C2_AsStated ==
    [][(ParagraphStep /\ TopStartsWith("definitions"))
       => IF Contains(ThisPara.text, ":")
          THEN NewChildOfTop(ThisPara)
          ELSE JoinedToLastChild(ThisPara)]_vars

\* C2 amended: the same for the paragraphs that neither start a new top-level node nor
\* are skipped; a paragraph without a colon that finds no child yet starts the first
\* child; and the example of the claim
C2_DefinitionsContinuation ==
    /\ []DefinitionsExample
    /\ [][(/\ ParagraphStep /\ TopStartsWith("definitions")
           /\ ~StartsNewTop /\ ~IsSkipped(ThisPara))
          => IF Contains(ThisPara.text, ":") \/ sections[current_top].children = << >>
             THEN NewChildOfTop(ThisPara)
             ELSE JoinedToLastChild(ThisPara)]_vars

C2_Witness ==
    /\ ConsumedTexts = << "2. Definitions", "Widget: a thing", "that spins",
                          "Gadget: another thing" >>
    /\ Headings(sections[1].children) =
           << "Widget: a thing that spins", "Gadget: another thing" >>

(***************************************************************************)
(* C3. Records flattening.                                                 *)
(***************************************************************************)
\* the paragraph is appended to the content of the current top, and nothing else in
\* the tree changes
AppendedToTopContent(p) ==
    sections' = [sections EXCEPT ![current_top].content = Append(@, p.text)]

\* C3 as stated: while the current top is a "Records" node, every emphasized paragraph
\* is appended to that top's content and no child is created under it
C3_AsStated ==
    [][(ParagraphStep /\ TopIs("records") /\ ThisPara.bold)
       => AppendedToTopContent(ThisPara)]_vars

\* C3 amended: the same for the emphasized paragraphs that neither start a new
\* top-level node nor are skipped; a Records node never has a child
C3_RecordsFlattening ==
    /\ [](\A t \in 1..Len(sections) :
            HeadKey(sections[t]) = "records" => sections[t].children = << >>)
    /\ [][(/\ ParagraphStep /\ TopIs("records") /\ ThisPara.bold
           /\ ~StartsNewTop /\ ~IsSkipped(ThisPara))
          => AppendedToTopContent(ThisPara)]_vars

C3_Witness ==
    /\ TopIs("records")
    /\ consumed[Len(consumed)] = Bold("6.1.1 X")
    /\ consumed[Len(consumed) - 1] = Bold("6.1 Retention")
    /\ sections[current_top].content = << "6.1 Retention", "6.1.1 X" >>
    /\ sections[current_top].children = << >>

(***************************************************************************)
(* C4. Sub-subclause orphan rule.                                          *)
(***************************************************************************)
\* C4 as stated: a ThreeLevel paragraph, emphasized or not, that arrives while no
\* subclause is open creates no node and is appended to the current top's content
C4_AsStated ==
    [][(/\ ParagraphStep /\ current_top # 0 /\ current_sub = None
        /\ SUBSUBCLAUSE_PATTERN(ThisPara.text))
       => /\ CountNodes(sections') = CountNodes(sections)
          /\ AppendedToTopContent(ThisPara)]_vars

\* C4 amended: a ThreeLevel paragraph that is not emphasized, neither starts a new
\* top-level node nor is skipped, and arrives while no subclause is open, no owner or
\* designee capture is active, no owner child is expected and the current top is
\* neither a Definitions nor a Policy Reference node, creates no node and is appended
\* to the current top's content
C4_OrphanSubSubClause ==
    [][(/\ ParagraphStep /\ current_top # 0 /\ current_sub = None
        /\ SUBSUBCLAUSE_PATTERN(ThisPara.text)
        /\ ~ThisPara.bold
        /\ ~StartsNewTop /\ ~IsSkipped(ThisPara)
        /\ ~capturing_owner_block /\ ~capturing_designee_block /\ ~expect_owner_child
        /\ ~TopStartsWith("definitions") /\ ~TopStartsWith("policy reference"))
       => /\ CountNodes(sections') = CountNodes(sections)
          /\ AppendedToTopContent(ThisPara)
          /\ current_sub' = None /\ current_subsub' = None]_vars

C4_Witness ==
    /\ pc = "pass" /\ Len(consumed) >= 3
    /\ consumed[Len(consumed)] = Plain("4.1.1 Detail")
    /\ current_sub = None
    /\ sections[current_top].content = << "4.1.1 Detail" >>
    /\ sections[current_top].children = << >>

(***************************************************************************)
(* C5. Revision history exclusivity.                                       *)
(***************************************************************************)
\* every node of the tree
AllNodes(secs) ==
    LET tops == { secs[t] : t \in 1..Len(secs) }
        subs == UNION { { n.children[i] : i \in 1..Len(n.children) } : n \in tops }
        subsubs == UNION { { n.children[i] : i \in 1..Len(n.children) } : n \in subs }
    IN  tops \cup subs \cup subsubs

\* the trailing table as the reader hands it over
TrailingTable == [type |-> "table", rows |-> StripRows(doc_tables[Len(doc_tables)])]

\* C5: if a trailing table is supplied, the returned revision_history is the table and
\* no node anywhere in the tree whose heading contains "revision" still holds content.
\* It is stated for the documents the pass has read, so that it does not rest on the
\* early return of C6.  The code empties only the deepest active node: a Revisions
\* node that a later heading has closed keeps its lines.
C5_RevisionExclusivity ==
    (pc = "done" /\ doc_tables # << >> /\ consumed # << >>)
    => /\ revision_history = TrailingTable
       /\ \A n \in AllNodes(sections) : IsRevisionHeading(n) => n.content = << >>

(***************************************************************************)
(* C6. Exactly one revision_history is returned; it is the table, with the *)
(* trailing table's rows in order, header row included, if and only if the *)
(* document has a table, and written otherwise, whatever the paragraphs.   *)
(* The code returns written for a document without a non-blank paragraph   *)
(* even when it has a table.                                               *)
(***************************************************************************)
C6_RevisionHistoryKind ==
    pc = "done"
    => IF doc_tables # << >>
       THEN revision_history = TrailingTable
       ELSE revision_history.type = "written"

(***************************************************************************)
(* C7. Written revision history: with no table, revision_history.content   *)
(* is the content of the revisions node (the deepest of current_subsub,    *)
(* current_sub, current_top whose normalized heading contains "revision"), *)
(* in order; that node's content is empty afterwards and every other node  *)
(* is unchanged; if no node heading contains "revision", the written lines *)
(* are empty and the tree is unaltered.                                    *)
(***************************************************************************)
\* the step returns, and the document has no table
ReturnsWritten == pc # "done" /\ pc' = "done" /\ doc_tables' = << >>

\* C7: on a return without a table, the written lines are the revisions node's content,
\* that node is emptied, and nothing else in the tree changes
C7_WrittenHistory ==
    [][ReturnsWritten
       => /\ revision_history'.type = "written"
          /\ IF /\ current_subsub # None
                /\ Contains(HeadKey(SubSubNode(sections, current_subsub)), "revision")
             THEN /\ revision_history'.content =
                        SubSubNode(sections, current_subsub).content
                  /\ sections' =
                        [sections EXCEPT ![current_subsub[1]].children[current_subsub[2]]
                                             .children[current_subsub[3]].content = << >>]
             ELSE IF /\ current_sub # None
                     /\ Contains(HeadKey(SubNode(sections, current_sub)), "revision")
             THEN /\ revision_history'.content = SubNode(sections, current_sub).content
                  /\ sections' =
                        [sections EXCEPT ![current_sub[1]].children[current_sub[2]]
                                             .content = << >>]
             ELSE IF /\ current_top # 0
                     /\ Contains(HeadKey(sections[current_top]), "revision")
             THEN /\ revision_history'.content = sections[current_top].content
                  /\ sections' = [sections EXCEPT ![current_top].content = << >>]
             ELSE /\ revision_history'.content = << >>
                  /\ sections' = sections
          /\ (\A n \in AllNodes(sections) : ~Contains(HeadKey(n), "revision"))
             => revision_history'.content = << >> /\ sections' = sections]_vars

\* the lines under "7. Revisions" were moved, and a sub-clause's lines were moved
C7_Witness ==
    /\ pc = "done" /\ doc_tables = << >>
    /\ revision_history.type = "written"
    /\ revision_history.content = << "Rev A initial release", "Rev A initial release" >>
    /\ current_sub = None
    /\ HeadKey(sections[current_top]) = "revisions"
    /\ sections[current_top].content = << >>

(***************************************************************************)
(* C8. At most one buffering mode is active: capturing_owner_block and     *)
(* capturing_designee_block are never both true.                           *)
(***************************************************************************)
C8_OneBufferingMode == ~(capturing_owner_block /\ capturing_designee_block)

\* designee capture is active after an owner capture has been flushed
C8_Witness ==
    /\ capturing_designee_block /\ ~capturing_owner_block
    /\ designee_buffer = << "Carol" >>
    /\ Len(sections) = 3
    /\ StartsWith(HeadKey(sections[2]), "process owner")
    /\ Headings(sections[2].children) = << "Alice, Bob" >>

(***************************************************************************)
(* C9. Cursor invariant: current_sub is null or a node in current_top's    *)
(* children, and current_subsub is null or a node in current_sub's         *)
(* children; so current_subsub non-null implies current_sub non-null, and  *)
(* no cursor points into the subtree of an earlier top-level node.         *)
(***************************************************************************)
C9_CursorInvariant ==
    /\ current_top \in 0..Len(sections)
    /\ current_sub # None
       => /\ current_top # 0
          /\ current_sub[1] = current_top
          /\ current_sub[2] \in 1..Len(sections[current_top].children)
    /\ current_subsub # None
       => /\ current_sub # None
          /\ SubSeq(current_subsub, 1, 2) = current_sub
          /\ current_subsub[3] \in 1..Len(SubNode(sections, current_sub).children)

\* a sub-subclause is open under the second top-level node, whose predecessor has
\* a child of its own
C9_Witness ==
    /\ current_subsub = << 2, 1, 1 >>
    /\ current_sub = << 2, 1 >>
    /\ current_top = 2
    /\ sections[1].children # << >>

(***************************************************************************)
(* C10. Top-level order: sections only grows by appending at its end and   *)
(* is never reordered or shrunk, so the i-th top-level node was started by *)
(* a paragraph that comes no later than the one that started the (i+1)-th; *)
(* each node's children list likewise keeps paragraph encounter order.     *)
(***************************************************************************)
\* the nodes are in the order of the paragraphs at which they were attached
RECURSIVE InEncounterOrder(_)
InEncounterOrder(nodes) ==
    /\ \A i \in 1..(Len(nodes) - 1) : nodes[i].para <= nodes[i + 1].para
    /\ \A i \in 1..Len(nodes) : InEncounterOrder(nodes[i].children)

\* new is old with nodes appended at its end: the old nodes keep their places (a
\* heading may have been continued), and so do their children
RECURSIVE GrownByAppending(_, _)
GrownByAppending(old, new) ==
    /\ Len(new) >= Len(old)
    /\ \A i \in 1..Len(old) :
          /\ new[i].para = old[i].para
          /\ StartsWith(new[i].heading, old[i].heading)
          /\ GrownByAppending(old[i].children, new[i].children)

\* C10: the nodes of sections and of every children list stand in encounter order,
\* top-level nodes strictly so, and every step only appends to these lists
C10_TopLevelOrder ==
    /\ [](/\ InEncounterOrder(sections)
          /\ \A i \in 1..(Len(sections) - 1) : sections[i].para < sections[i + 1].para)
    /\ [][/\ GrownByAppending(sections, sections')
          /\ \A i \in 1..Len(sections) : sections'[i].heading = sections[i].heading]_vars

\* three top-level nodes, the second with two children
C10_Witness ==
    /\ Len(sections) = 3
    /\ Len(sections[2].children) = 2
    /\ sections[3].para = 5

(***************************************************************************)
(* C12. Missing anchors.                                                   *)
(***************************************************************************)
\* what step D finds in the document
Anchors == ScanAnchors(paras, 0, NoIdx)

\* C12: when the "Purpose and Scope" and "Definitions" headings cannot both be located,
\* purpose_scope_block is empty and the pass runs over the document from its first
\* paragraph, so that the numbered headings of the document have their top-level nodes.
\* The code starts the pass at the Definitions heading all the same, and at the end of
\* the document when there is no Definitions heading: the paragraphs before are never
\* classified.
C12_MissingAnchors ==
    (pc = "done" /\ paras # << >> /\ AnchorsMissing(Anchors))
    => /\ purpose_scope_block = ""
       /\ consumed # << >> /\ consumed[1] = paras[1]
       /\ \A i \in 1..Len(paras) :
             (SingleNotSub(Analyse(paras[i])) /\ ~IsSkipped(paras[i]))
             => \E t \in 1..Len(sections) : sections[t].heading = Strip(paras[i].text)

(***************************************************************************)
(* C13. Batch isolation.                                                   *)
(***************************************************************************)
\* a file whose parsing or populating fails
Fails(file) == ParseRaises(file) \/ PopulateRaises(file)

\* C13: in process_folder a failure while parsing or populating one document is
\* reported for that document and does not prevent the remaining .docx files of the
\* folder from being processed: when process_folder returns, every file has had its
\* turn, every failing file has its error report and every other file its output.
\* The code returns from process_folder at the first failure.
C13_BatchIsolation ==
    folder_pc = "returned"
    => /\ file_idx = Len(docx_files)
       /\ \A i \in 1..Len(docx_files) :
             IF Fails(docx_files[i])
             THEN \E k \in 1..Len(messages) : messages[k] = ShowError(i)
             ELSE \E k \in 1..Len(outputs) : outputs[k] = i

(***************************************************************************)
(* C14. Sequence pointer.                                                  *)
(***************************************************************************)
\* C14: next_top_idx starts at 2 and never exceeds the length of the canonical keyword
\* list; in one paragraph it stays or moves by exactly +1, and it moves only when the
\* paragraph creates a top-level node whose prefix-stripped lower-cased heading starts
\* with the keyword at the pointer
C14_SequencePointer ==
    /\ [](/\ next_top_idx \in 2..Len(TOP_LEVEL_SEQUENCE)
          /\ pc = "load" => next_top_idx = 2)
    /\ [][/\ next_top_idx' \in { next_top_idx, next_top_idx + 1 }
          /\ next_top_idx' # next_top_idx
             => /\ ParagraphStep
                /\ Len(sections') = Len(sections) + 1
                /\ StartsWith(HeadKey(sections'[Len(sections')]), Keyword(next_top_idx))]_vars

\* the pointer has reached the end of the list, and a top-level node was created after
C14_Witness ==
    /\ next_top_idx = Len(TOP_LEVEL_SEQUENCE)
    /\ Len(sections) = 9
    /\ HeadKey(sections[9]) = "appendix"

(***************************************************************************)
(* C15. Skip tolerance.                                                    *)
(***************************************************************************)
\* the k-th keyword of TOP_LEVEL_SEQUENCE begins some paragraph of the pass
KeywordAppears(k) ==
    \E n \in 1..Len(consumed) : StartsWith(Analyse(consumed[n]).low, TOP_LEVEL_SEQUENCE[k])

\* paragraph i is the j-th keyword written as a heading without a numeric prefix, and
\* a canonical section between Definitions and it is absent from the document
LaterKeywordHeading(i, j) ==
    /\ normalize(consumed[i].text) = TOP_LEVEL_SEQUENCE[j]
    /\ \E k \in 4..(j - 1) : ~KeywordAppears(k)

\* C15: when a canonical section is absent from the document, the headings of later
\* canonical sections that do appear, written as keyword headings without a numeric
\* prefix, still start new top-level nodes.
\* The code compares an un-numbered heading with the keyword at the pointer only, and
\* the pointer stays on the absent section: "Procedures" without "Process Owner"
\* becomes a child or a line of the section before it.
C15_SkipTolerance ==
    pc = "done"
    => \A i \in 1..Len(consumed), j \in 5..Len(TOP_LEVEL_SEQUENCE) :
          LaterKeywordHeading(i, j)
          => \E t \in 1..Len(sections) :
                sections[t].para = i /\ sections[t].heading = Strip(consumed[i].text)

(***************************************************************************)
(* C16. createTop postcondition.                                           *)
(***************************************************************************)
\* what create_top leaves when it is called in state s with a heading
CreateTopPostcondition(s, heading) ==
    LET s1 == create_top(s, heading)
        n == Len(s.sections)
    IN  /\ Len(s1.sections) = n + 1
        /\ SubSeq(s1.sections, 1, n) = s.sections
        /\ s1.sections[n + 1].heading = heading
        /\ s1.sections[n + 1].content = << >>
        /\ s1.sections[n + 1].children = << >>
        /\ s1.current_top = n + 1
        /\ s1.current_sub = None /\ s1.current_subsub = None
        /\ ~s1.capturing_owner_block /\ ~s1.capturing_designee_block
        /\ s1.owner_buffer = << >> /\ s1.designee_buffer = << >>
        /\ ~s1.expect_owner_child

\* the headings create_top can be called with
TopHeadings == { Strip(p.text) : p \in vocab } \cup { "Process Designees" }

\* an old node is as it was, but for the children a flush has attached to it
KeptNode(old, new) ==
    /\ new.heading = old.heading
    /\ new.content = old.content
    /\ Len(new.children) >= Len(old.children)
    /\ SubSeq(new.children, 1, Len(old.children)) = old.children

\* C16: every creation of a top-level node appends exactly one node with empty content
\* and children to sections, makes it current_top, sets current_sub and current_subsub
\* to null, and leaves both capture flags false with both buffers empty and
\* expect_owner_child false, before any arming by the calling rule; no existing node is
\* modified.  It is stated of create_top in every state of the pass, and of every
\* paragraph that creates a top-level node, where a capture that is active afterwards,
\* or an expected owner child, is the arming of the rule for that heading, and the
\* old nodes are modified by nothing but the flush of a buffer before the creation.
C16_CreateTopPostcondition ==
    /\ [](pc = "pass" => \A h \in TopHeadings : CreateTopPostcondition(ParseState, h))
    /\ [][(ParagraphStep /\ StartsNewTop)
          => LET n == Len(sections) IN
             /\ Len(sections') = n + 1
             /\ sections'[n + 1].content = << >>
             /\ sections'[n + 1].children = << >>
             /\ sections'[n + 1].heading \in { Strip(ThisPara.text), "Process Designees" }
             /\ current_top' = n + 1
             /\ current_sub' = None /\ current_subsub' = None
             /\ owner_buffer' = << >>
             /\ capturing_owner_block'
                => StartsWith(HeadKey(sections'[n + 1]), "process owner")
             /\ expect_owner_child'
                => StartsWith(HeadKey(sections'[n + 1]), "process owner")
             /\ IF capturing_designee_block'
                THEN sections'[n + 1].heading = "Process Designees"
                ELSE designee_buffer' = << >>
             /\ \A t \in 1..n :
                   /\ KeptNode(sections[t], sections'[t])
                   /\ sections'[t] # sections[t]
                      => /\ t = current_top
                         /\ capturing_owner_block \/ capturing_designee_block]_vars

\* "Records" has closed an owner capture: the new node is empty, the capture is off
C16_Witness ==
    /\ ConsumedTexts = << "2. Definitions", "3. Process Owner", "Alice, Bob", "Records" >>
    /\ Len(sections) = 3
    /\ sections[3] = Node("Records", << >>, 4)
    /\ current_top = 3 /\ current_sub = None
    /\ ~capturing_owner_block /\ owner_buffer = << >>

(***************************************************************************)
(* C17. appendContent.                                                     *)
(***************************************************************************)
\* no rule before the plain-text rule of lines 408-416 takes the paragraph: it is not
\* emphasized, and the conditions of lines 168-367 are false of it in this state
ReachesFallback(p) ==
    LET q == Analyse(p)
        s == ParseState
    IN  /\ ~q.is_bold
        /\ ~(StartsWith(q.low, "records") /\ SINGLE_LEVEL_PATTERN(q.raw))
        /\ ~(StartsWith(q.low, "policy reference") /\ SINGLE_LEVEL_PATTERN(q.raw))
        /\ ~StartsWith(q.low, "revision history")
        /\ ~capturing_designee_block
        /\ ~SingleNotSub(q)
        /\ ~capturing_owner_block
        /\ ~MatchesNextKeyword(s, q)
        /\ ~expect_owner_child
        /\ ~PROCESS_DESIGNEE_PATTERN(q.stripped)
        /\ ~TopStartsWith("definitions")
        /\ ~TopStartsWith("policy reference")

\* C17: a non-emphasized paragraph that reaches the fallback rule is appended to the
\* content of exactly one node, the deepest active one by priority current_subsub >
\* current_sub > current_top, and changes nothing else: no node is created, no heading
\* changes, and the cursor, sequence pointer and buffering state are unchanged
C17_AppendContent ==
    [][(ParagraphStep /\ ReachesFallback(ThisPara))
       => /\ IF current_subsub # None
             THEN sections' =
                      [sections EXCEPT ![current_subsub[1]].children[current_subsub[2]]
                           .children[current_subsub[3]].content = Append(@, ThisPara.text)]
             ELSE IF current_sub # None
             THEN sections' =
                      [sections EXCEPT ![current_sub[1]].children[current_sub[2]]
                           .content = Append(@, ThisPara.text)]
             ELSE /\ current_top # 0
                  /\ sections' =
                         [sections EXCEPT ![current_top].content = Append(@, ThisPara.text)]
          /\ CountNodes(sections') = CountNodes(sections)
          /\ UNCHANGED << current_top, current_sub, current_subsub, next_top_idx,
                          expect_owner_child, capturing_owner_block, owner_buffer,
                          capturing_designee_block, designee_buffer >>]_vars

\* a plain line was appended to the open sub-subclause, and to nothing above it
C17_Witness ==
    /\ ConsumedTexts =
          << "2. Definitions", "4. Procedures", "4.1 Step", "4.1.1 Detail", "Do it" >>
    /\ current_subsub = << 2, 1, 1 >>
    /\ SubSubNode(sections, current_subsub).content = << "Do it" >>
    /\ SubNode(sections, current_sub).content = << >>
    /\ sections[2].content = << >>

(***************************************************************************)
(* C19. Terminator flush loses nothing.                                    *)
(***************************************************************************)
\* the non-empty lines of a buffer, stripped, in order
NonEmptyLines(buffer) ==
    SelectSeq([i \in 1..Len(buffer) |-> Strip(buffer[i])], LAMBDA line : line # "")

\* a capture is active and the paragraph is a terminator of it: a SingleLevel heading
\* with no subclause open, a match of the next expected keyword, or, for an owner
\* capture, a process-designee line
TerminatorArrives(p) ==
    LET q == Analyse(p)
    IN  /\ capturing_owner_block \/ capturing_designee_block
        /\ \/ current_sub = None /\ SingleNotSub(q)
           \/ MatchesNextKeyword(ParseState, q)
           \/ capturing_owner_block /\ PROCESS_DESIGNEE_PATTERN(q.stripped)

\* C19: whenever owner or designee capture is active and a terminator paragraph
\* arrives, every non-empty buffered line is attached as a child under the role's
\* top-level node, and the terminator paragraph creates the next top-level node;
\* buffered lines are never discarded.
\* The code discards the owner buffer when the terminator is a SingleLevel heading:
\* the rule of lines 222-237 runs before the owner rule and its create_top empties
\* the buffer.
C19_TerminatorFlush ==
    [][(ParagraphStep /\ TerminatorArrives(ThisPara))
       => LET buffer == IF capturing_owner_block THEN owner_buffer ELSE designee_buffer
          IN  /\ StartsNewTop
              /\ Headings(sections'[current_top].children) =
                     Headings(sections[current_top].children) \o NonEmptyLines(buffer)]_vars

(***************************************************************************)
(* C20. Comma splitting on flush.                                          *)
(***************************************************************************)
\* the position of the first comma of a line at or after i (Len(line) + 1 if none)
RECURSIVE NextComma(_, _)
NextComma(line, i) ==
    IF i <= Len(line) /\ CharAt(line, i) # "," THEN NextComma(line, i + 1) ELSE i

\* the non-empty trimmed tokens of a line split on commas, in order
RECURSIVE CommaTokens(_)
CommaTokens(line) ==
    LET k == NextComma(line, 1)
        token == Strip(SubSeq(line, 1, k - 1))
        first == IF token = "" THEN << >> ELSE << token >>
    IN  IF k > Len(line) THEN first ELSE first \o CommaTokens(Drop(line, k + 1))

\* the tokens of all the lines of a buffer
RECURSIVE NameTokens(_)
NameTokens(buffer) ==
    IF buffer = << >> THEN << >>
    ELSE CommaTokens(Head(buffer)) \o NameTokens(Tail(buffer))

\* the paragraph reaches the capture rules: it is neither promoted nor skipped
ReachesCapture(q) ==
    /\ ~(StartsWith(q.low, "records") /\ (q.is_bold \/ SINGLE_LEVEL_PATTERN(q.raw)))
    /\ ~(StartsWith(q.low, "policy reference")
          /\ (q.is_bold \/ SINGLE_LEVEL_PATTERN(q.raw)))
    /\ ~StartsWith(q.low, "revision history")

\* the paragraph makes the designee rule (206-214) or the owner rule (255-266) flush
FlushesOnTerminator(p) ==
    LET q == Analyse(p)
    IN  /\ ReachesCapture(q)
        /\ \/ capturing_designee_block /\ IsNewTop(ParseState, q)
           \/ /\ capturing_owner_block /\ ~capturing_designee_block
              /\ ~SingleNotSub(q)
              /\ MatchesNextKeyword(ParseState, q) \/ PROCESS_DESIGNEE_PATTERN(q.stripped)

\* the buffer of the active capture
ActiveBuffer ==
    IF capturing_owner_block THEN owner_buffer
    ELSE IF capturing_designee_block THEN designee_buffer
    ELSE << >>

\* C20: at every flush of an owner or designee buffer, on a terminator or at the end
\* of the input, each buffered line is split on commas and exactly one child node is
\* attached per non-empty trimmed token, in order; empty tokens produce no node.
\* The code attaches one child per buffered line, commas included.
C20_CommaSplitting ==
    [][(/\ current_top # 0
        /\ \/ ParagraphStep /\ FlushesOnTerminator(ThisPara)
           \/ pc = "flush" /\ pc' # "flush")
       => Headings(sections'[current_top].children) =
              Headings(sections[current_top].children) \o NameTokens(ActiveBuffer)]_vars

(***************************************************************************)
(* C21. Buffering is exclusive.                                            *)
(***************************************************************************)
\* the block terminator predicate: a SingleLevel heading with no subclause open, a
\* match of the next expected keyword, or a process-designee line
TerminatorFires(p) ==
    LET q == Analyse(p)
    IN  \/ current_sub = None /\ SingleNotSub(q)
        \/ MatchesNextKeyword(ParseState, q)
        \/ PROCESS_DESIGNEE_PATTERN(q.stripped)

\* the text of the paragraph is appended to the buffer of the active capture and the
\* step has no other effect
BufferedOnly(p) ==
    /\ IF capturing_owner_block
       THEN owner_buffer' = Append(owner_buffer, Strip(p.text))
            /\ designee_buffer' = designee_buffer
       ELSE designee_buffer' = Append(designee_buffer, Strip(p.text))
            /\ owner_buffer' = owner_buffer
    /\ UNCHANGED << sections, current_top, current_sub, current_subsub, next_top_idx,
                    expect_owner_child, capturing_owner_block, capturing_designee_block >>

\* C21 as stated: while owner or designee capture is active, every paragraph for
\* which the terminator predicate does not fire is appended to that role's buffer and
\* has no other effect
C21_AsStated ==
    [][(/\ ParagraphStep
        /\ capturing_owner_block \/ capturing_designee_block
        /\ ~TerminatorFires(ThisPara))
       => BufferedOnly(ThisPara)]_vars

\* C21 amended: the same for the paragraphs that are neither promoted by the Records or
\* Policy Reference rule nor skipped as a "Revision History" line
C21_ExclusiveBuffering ==
    [][(/\ ParagraphStep
        /\ capturing_owner_block \/ capturing_designee_block
        /\ ReachesCapture(Analyse(ThisPara))
        /\ ~TerminatorFires(ThisPara))
       => BufferedOnly(ThisPara)]_vars

\* a second line has joined the designee buffer
C21_Witness ==
    /\ ConsumedTexts = << "2. Definitions", "Process Designees: Carol", "Dave" >>
    /\ capturing_designee_block
    /\ designee_buffer = << "Carol", "Dave" >>
    /\ Len(sections) = 2 /\ sections[2].children = << >>

(***************************************************************************)
(* C22. Arming.                                                            *)
(***************************************************************************)
\* the top-level node the step has created
NewTop == sections'[Len(sections')]

\* C22: whenever a top-level node is created whose normalized, prefix-stripped heading
\* starts with "process owner", owner capture is active immediately afterwards, and
\* whenever one is created whose heading starts with "process designee", designee
\* capture is active immediately afterwards
C22_Arming ==
    [][(ParagraphStep /\ StartsNewTop)
       => /\ StartsWith(HeadKey(NewTop), "process owner") => capturing_owner_block'
          /\ StartsWith(HeadKey(NewTop), "process designee")
                 => capturing_designee_block']_vars

(***************************************************************************)
(* C23. An owner block is terminated by the start of a designee block.     *)
(***************************************************************************)
\* the paragraph is an un-numbered process-designee line
DesigneeLine(p) ==
    LET q == Analyse(p)
    IN  q.stripped = q.text /\ PROCESS_DESIGNEE_PATTERN(q.stripped)

\* C23: whenever the current top is the Process Owner node, however it was created,
\* and an un-numbered paragraph matching the process-designee pattern arrives, the
\* owner block ends and a new top-level node headed "Process Designees" is created;
\* the paragraph becomes no child, heading or content inside the Process Owner node,
\* which gains nothing but the lines flushed from the owner buffer.
\* The code attaches the designee line as the child of a Process Owner node that the
\* keyword rule has just created.
C23_DesigneeEndsOwner ==
    [][(ParagraphStep /\ TopStartsWith("process owner") /\ DesigneeLine(ThisPara))
       => /\ StartsNewTop
          /\ NewTop.heading = "Process Designees"
          /\ ~capturing_owner_block'
          /\ sections'[current_top].heading = sections[current_top].heading
          /\ sections'[current_top].content = sections[current_top].content
          /\ Headings(sections'[current_top].children) =
                 Headings(sections[current_top].children)
                     \o NonEmptyLines(IF capturing_owner_block THEN owner_buffer
                                                               ELSE << >>)]_vars

(***************************************************************************)
(* C24. End-of-input flush.                                                *)
(***************************************************************************)
\* C24: if the paragraph sequence ends while owner or designee capture is active,
\* every non-empty line still in that buffer becomes a child of the current top-level
\* node, in buffer order, and the steps after the flush remove no child, so no
\* buffered line is missing from the returned tree
C24_EndOfInputFlush ==
    /\ [][(/\ pc = "flush"
            /\ pc' # "flush"
            /\ (capturing_owner_block \/ capturing_designee_block))
           => /\ pc' = "revision"
              /\ ActiveBuffer # << >> => current_top # 0
              /\ current_top # 0 =>
                     /\ Len(sections') = Len(sections)
                     /\ Headings(sections'[current_top].children) =
                            Headings(sections[current_top].children)
                                \o NonEmptyLines(ActiveBuffer)]_vars
    /\ [][pc = "revision"
           => /\ Len(sections') = Len(sections)
              /\ \A t \in 1..Len(sections) :
                     Headings(sections'[t].children) = Headings(sections[t].children)]_vars

\* the input ended in an owner block and the buffered line is in the returned tree
C24_Witness ==
    /\ pc = "done"
    /\ ConsumedTexts = << "2. Definitions", "3. Process Owner", "Alice, Bob" >>
    /\ Headings(sections[2].children) = << "Alice, Bob" >>
    /\ ~capturing_owner_block /\ owner_buffer = << >>

(***************************************************************************)
(* C25. SingleLevel headings and open subclauses.                          *)
(***************************************************************************)
\* C25 as stated: a paragraph matching SingleLevel and not TwoLevel starts a new
\* top-level node when no subclause is open; when a subclause is open it does not
\* start a new top-level node
C25_AsStated ==
    [][(ParagraphStep /\ SingleNotSub(Analyse(ThisPara)))
       => IF current_sub = None THEN StartsNewTop ELSE ~StartsNewTop]_vars

\* C25 amended: a paragraph matching SingleLevel and not TwoLevel that is not a
\* skipped "Revision History" line starts a new top-level node headed by its text,
\* whether or not a subclause is open
C25_SingleLevelStartsTop ==
    [][(/\ ParagraphStep
        /\ SingleNotSub(Analyse(ThisPara))
        /\ ~IsSkipped(ThisPara))
       => /\ StartsNewTop
          /\ NewTop.heading = Strip(ThisPara.text)
          /\ current_top' = Len(sections')
          /\ current_sub' = None]_vars

\* a numbered heading has started a top-level node while the subclause "4.1 Step"
\* was open
C25_Witness ==
    /\ ConsumedTexts = << "2. Definitions", "4. Procedures", "4.1 Step", "5. References" >>
    /\ Headings(sections) = << "2. Definitions", "4. Procedures", "5. References" >>
    /\ Headings(sections[2].children) = << "4.1 Step" >>
    /\ current_sub = None

(***************************************************************************)
(* C26. Forced promotion moves the pointer.                                *)
(***************************************************************************)
\* the paragraph meets the condition of the promotion rule for the given keyword
PromotedAs(p, word) ==
    LET q == Analyse(p)
    IN  StartsWith(q.low, word) /\ (q.is_bold \/ SINGLE_LEVEL_PATTERN(q.raw))

\* the index of a keyword of the canonical list, counted from 0 as next_top_idx is
IndexOf(word) ==
    CHOOSE i \in 0..(Len(TOP_LEVEL_SEQUENCE) - 1) : Keyword(i) = word

\* C26: when a heading is promoted to top-level by the Records or the Policy
\* Reference rule while the sequence pointer is at or behind that keyword, the
\* pointer afterwards is index(keyword) + 1.
\* The code leaves a pointer that is behind the keyword where it was: create_top
\* advances it only when the heading starts with the keyword at the pointer.
C26_ForcedPointer ==
    [][ParagraphStep
       => /\ (PromotedAs(ThisPara, "records") /\ next_top_idx <= IndexOf("records"))
              => next_top_idx' = IndexOf("records") + 1
          /\ (/\ PromotedAs(ThisPara, "policy reference")
              /\ ~PromotedAs(ThisPara, "records")
              /\ next_top_idx <= IndexOf("policy reference"))
              => next_top_idx' = IndexOf("policy reference") + 1]_vars

(***************************************************************************)
(* C27. Skip headings.                                                     *)
(***************************************************************************)
\* C27: a paragraph whose prefix-stripped lower-cased text starts with "revision
\* history" is discarded in every state, including while owner or designee capture is
\* active: the tree, the cursor, the sequence pointer, the capture flags and both
\* buffers are unchanged by it
C27_SkipHeadings ==
    [][(ParagraphStep /\ IsSkipped(ThisPara))
       => /\ pc' = "pass"
          /\ UNCHANGED << sections, current_top, current_sub, current_subsub,
                          next_top_idx, expect_owner_child, capturing_owner_block,
                          owner_buffer, capturing_designee_block, designee_buffer >>]_vars

\* a "Revision History" line has been taken inside an owner block and is not in the
\* buffer
C27_Witness ==
    /\ ConsumedTexts =
           << "2. Definitions", "3. Process Owner", "Alice, Bob", "Revision History" >>
    /\ capturing_owner_block
    /\ owner_buffer = << "Alice, Bob" >>
    /\ Len(sections) = 2

(***************************************************************************)
(* C28. Numbered emphasized headings nest by level.                        *)
(***************************************************************************)
\* there is a current top and it is no Definitions, Policy Reference or Records node
OrdinaryTop ==
    /\ current_top # 0
    /\ ~TopStartsWith("definitions")
    /\ ~TopStartsWith("policy reference")
    /\ ~TopStartsWith("records")

\* new is old with one node appended, headed by the text, with no content or children
OneMoreChild(old, new, text) ==
    /\ Len(new) = Len(old) + 1
    /\ Headings(new) = Append(Headings(old), text)
    /\ \A i \in 1..Len(old) : new[i] = old[i]
    /\ new[Len(new)].content = << >>
    /\ new[Len(new)].children = << >>

\* the paragraph is handled as a sub-subclause: emphasized, ThreeLevel, a subclause open
AsSubSubClause(q) ==
    q.is_bold /\ SUBSUBCLAUSE_PATTERN(q.raw) /\ current_sub # None

\* the paragraph becomes a new child of current_sub and becomes current_subsub, with
\* current_sub unchanged
NestedUnderSub(q) ==
    LET t == current_sub[1]
        i == current_sub[2]
    IN  /\ Len(sections') = Len(sections)
        /\ \A u \in 1..Len(sections) : u # t => sections'[u] = sections[u]
        /\ Headings(sections'[t].children) = Headings(sections[t].children)
        /\ \A j \in 1..Len(sections[t].children) :
               j # i => sections'[t].children[j] = sections[t].children[j]
        /\ OneMoreChild(sections[t].children[i].children,
                        sections'[t].children[i].children, q.text)
        /\ current_subsub' = << t, i, Len(sections'[t].children[i].children) >>
        /\ current_sub' = current_sub
        /\ current_top' = current_top

\* the paragraph becomes a new child of current_top and becomes current_sub, and
\* current_subsub is reset to null
NestedUnderTop(q) ==
    /\ Len(sections') = Len(sections)
    /\ \A u \in 1..Len(sections) : u # current_top => sections'[u] = sections[u]
    /\ OneMoreChild(sections[current_top].children, sections'[current_top].children,
                    q.text)
    /\ sections'[current_top].content = sections[current_top].content
    /\ current_sub' = << current_top, Len(sections'[current_top].children) >>
    /\ current_subsub' = None
    /\ current_top' = current_top

NestsByLevel(q) ==
    /\ AsSubSubClause(q) => NestedUnderSub(q)
    /\ (q.is_bold /\ SUBCLAUSE_PATTERN(q.raw) /\ ~AsSubSubClause(q)) => NestedUnderTop(q)

\* C28 as stated: outside Definitions, Policy Reference and Records tops, an
\* emphasized ThreeLevel paragraph arriving while a subclause is open becomes a new
\* child of current_sub and becomes current_subsub with current_sub unchanged; an
\* emphasized TwoLevel paragraph that is not handled as a sub-subclause becomes a new
\* child of current_top, becomes current_sub and resets current_subsub to null
C28_AsStated ==
    [][(ParagraphStep /\ OrdinaryTop) => NestsByLevel(Analyse(ThisPara))]_vars

\* C28 amended: the same for the paragraphs that arrive while no owner or designee
\* capture is active and that neither start a new top-level node nor are skipped
C28_NestingByLevel ==
    [][(/\ ParagraphStep
        /\ OrdinaryTop
        /\ ~capturing_owner_block
        /\ ~capturing_designee_block
        /\ ~StartsNewTop
        /\ ~IsSkipped(ThisPara))
       => NestsByLevel(Analyse(ThisPara))]_vars

\* "4.1.1 Detail" has been nested under the open subclause "4.1 Step"
C28_Witness ==
    /\ ConsumedTexts = << "2. Definitions", "4. Procedures", "4.1 Step", "4.1.1 Detail" >>
    /\ consumed[4].bold
    /\ current_sub = << 2, 1 >>
    /\ current_subsub = << 2, 1, 1 >>
    /\ Headings(sections[2].children[1].children) = << "4.1.1 Detail" >>

(***************************************************************************)
(* C29. Promoted Records headings are Records sections.                    *)
(***************************************************************************)
\* the top-level node was created by the Records promotion rule
PromotedRecords(node) == PromotedAs(consumed[node.para], "records")

\* C29: every top-level node created by the Records promotion rule ("Records",
\* "Records:", "6. Records:" ...) is treated as a Records section: the lines arriving
\* under it go to its content and its children list stays empty.
\* The code flattens only under a heading that is exactly "records": an emphasized
\* line under "Records:" becomes a child.
C29_PromotedRecordsStayFlat ==
    \A t \in 1..Len(sections) :
        PromotedRecords(sections[t]) => sections[t].children = << >>

(***************************************************************************)
(* C30. Records and Policy Reference promotion comes first.                *)
(***************************************************************************)
\* the normalized text of the paragraph starts with "records" or "policy reference"
NamesPromotedSection(p) ==
    \/ StartsWith(Analyse(p).low, "records")
    \/ StartsWith(Analyse(p).low, "policy reference")

\* C30: a paragraph whose normalized text starts with "records" or "policy reference"
\* and that is emphasized or has a SingleLevel numeric prefix always creates a new
\* top-level node, whatever the sequence pointer, the cursor or an active capture
\* mode; a line starting with those words that is neither emphasized nor numbered so
\* is never promoted by this rule: it starts a top-level node only when it matches
\* the next expected keyword
C30_PromotionPrecedence ==
    [][ParagraphStep
       => /\ (PromotedAs(ThisPara, "records") \/ PromotedAs(ThisPara, "policy reference"))
              => /\ StartsNewTop
                 /\ NewTop.heading = Strip(ThisPara.text)
                 /\ NewTop.content = << >> /\ NewTop.children = << >>
                 /\ current_top' = Len(sections')
                 /\ current_sub' = None /\ current_subsub' = None
                 /\ ~capturing_owner_block' /\ ~capturing_designee_block'
          /\ (/\ NamesPromotedSection(ThisPara)
              /\ ~PromotedAs(ThisPara, "records")
              /\ ~PromotedAs(ThisPara, "policy reference")
              /\ ~MatchesNextKeyword(ParseState, Analyse(ThisPara)))
              => ~StartsNewTop]_vars

\* an emphasized "Records" has started a top-level node inside an owner block
C30_Witness ==
    /\ ConsumedTexts = << "2. Definitions", "3. Process Owner", "Alice, Bob", "Records" >>
    /\ consumed[4].bold
    /\ Headings(sections) = << "2. Definitions", "3. Process Owner", "Records" >>
    /\ current_top = 3
    /\ ~capturing_owner_block

(***************************************************************************)
(* populate_template.py: the flattening of the Policy Reference subtree    *)
(***************************************************************************)
\* index reached by (?:\.\d+)* from i
RECURSIVE SkipDotGroups(_, _)
SkipDotGroups(s, i) ==
    IF i < Len(s) /\ CharAt(s, i) = "." /\ IsDigit(CharAt(s, i + 1))
    THEN SkipDotGroups(s, SkipDigits(s, i + 1)) ELSE i

\* _strip_all_numbers: re.sub(r"^\s*\d+(?:\.\d+)*\s*", "", s).strip()
strip_all_numbers(s) ==
    LET a == SkipSpaces(s, 1)
        b == SkipDigits(s, a)
    IN  IF b = a THEN Strip(s)
        ELSE Strip(Drop(s, SkipSpaces(s, SkipDotGroups(s, b))))

\* the position of the first line break of a text at or after i (Len + 1 if none)
RECURSIVE NextBreak(_, _)
NextBreak(ln, i) ==
    IF i <= Len(ln) /\ CharAt(ln, i) # "\n" THEN NextBreak(ln, i + 1) ELSE i

\* [subln.strip() for subln in ln.splitlines() if subln.strip()]
RECURSIVE SubLines(_)
SubLines(ln) ==
    LET k == NextBreak(ln, 1)
        subln == Strip(SubSeq(ln, 1, k - 1))
        first == IF subln = "" THEN << >> ELSE << subln >>
    IN  IF k > Len(ln) THEN first ELSE first \o SubLines(Drop(ln, k + 1))

\* the lines that the loops over a content list append to flat_lines
RECURSIVE ContentLines(_)
ContentLines(content) ==
    IF content = << >> THEN << >>
    ELSE SubLines(Head(content)) \o ContentLines(Tail(content))

\* lines 592-599: the heading and content of each grandchild
RECURSIVE GrandChildLines(_)
GrandChildLines(children) ==
    IF children = << >> THEN << >>
    ELSE LET g_head == strip_all_numbers(Head(children).heading)
         IN  (IF g_head # "" THEN << g_head >> ELSE << >>)
                 \o ContentLines(Head(children).content)
                 \o GrandChildLines(Tail(children))

\* lines 579-599: collect(node)
collect(node) ==
    LET head_txt == strip_all_numbers(node.heading)
    IN  (IF head_txt # "" THEN << head_txt >> ELSE << >>)
            \o ContentLines(node.content)
            \o GrandChildLines(node.children)

RECURSIVE CollectAll(_)
CollectAll(children) ==
    IF children = << >> THEN << >>
    ELSE collect(Head(children)) \o CollectAll(Tail(children))

\* lines 576-609: flat_lines for the Policy Reference node
flat_lines(pol_node) == CollectAll(pol_node.children) \o ContentLines(pol_node.content)

(***************************************************************************)
(* C31. Policy Reference capture keeps each line once.                     *)
(***************************************************************************)
\* C31: while the current top is a Policy Reference node, every consumed paragraph
\* (one that neither starts a new top-level node nor is skipped) contributes its text
\* exactly once to that subtree, so that the flattened list built by
\* populate_template grows by exactly one line, at its end.
\* The code stores a plain line that arrives before any child as the heading AND the
\* only content line of a new child: the flattened list holds it twice.
C31_PolicyReferenceOnce ==
    [][(/\ ParagraphStep
        /\ TopStartsWith("policy reference")
        /\ ~StartsNewTop
        /\ ~IsSkipped(ThisPara))
       => LET old == flat_lines(sections[current_top])
              new == flat_lines(sections'[current_top])
          IN  /\ Len(new) = Len(old) + 1
              /\ SubSeq(new, 1, Len(old)) = old
              /\ new[Len(new)] \in { Strip(ThisPara.text),
                                     strip_all_numbers(ThisPara.text) }]_vars

(***************************************************************************)
(* C32. Termination and bounded replay.                                    *)
(***************************************************************************)
\* the paragraphs taken so far are the beginning of `remaining`, in document order
InDocumentOrder ==
    \A i \in 1..Len(consumed) :
        i <= Len(Remaining(paras)) => consumed[i] = Remaining(paras)[i]

\* one iteration takes exactly one paragraph, the next one, and keeps the earlier ones
TakesNextParagraph ==
    /\ Len(consumed') = Len(consumed) + 1
    /\ SubSeq(consumed', 1, Len(consumed)) = consumed

\* C32: the pass terminates after consuming each paragraph exactly once, in document
\* order; a buffer flush re-classifies only the paragraph that triggered it, within
\* the same iteration: the flushing step is the step in which that paragraph starts
\* its top-level node; no paragraph triggers more than one flush (the two captures are
\* never active together) or creates more than one top-level node, and the nodes of
\* the earlier top-level sections are not touched again
C32_TerminationBoundedReplay ==
    /\ [](InDocumentOrder /\ ~(capturing_owner_block /\ capturing_designee_block))
    /\ [][consumed' # consumed => (pc = "pass" /\ TakesNextParagraph)]_vars
    /\ [][ParagraphStep
           => /\ Len(sections') <= Len(sections) + 1
              /\ \A t \in 1..Len(sections) : t # current_top => sections'[t] = sections[t]
              /\ FlushesOnTerminator(ThisPara)
                     => /\ StartsNewTop
                        /\ NewTop.heading \in { Strip(ThisPara.text), "Process Designees" }
                        /\ NewTop.para = Len(consumed')
                        /\ Headings(sections'[current_top].children) =
                               Headings(sections[current_top].children)
                                   \o NonEmptyLines(ActiveBuffer)]_vars
    /\ <>(pc \in {"done", "failed"})

\* a terminator has flushed the designee buffer and started its own top-level node in
\* the same iteration, and the call has returned
C32_Witness ==
    /\ pc = "done"
    /\ ConsumedTexts = << "2. Definitions", "Process Designees: Carol", "Dave", "4. Procedures" >>
    /\ Headings(sections) = << "2. Definitions", "Process Designees", "4. Procedures" >>
    /\ Headings(sections[2].children) = << "Carol", "Dave" >>

(***************************************************************************)
(* C33. Capture anchoring.                                                 *)
(***************************************************************************)
\* the current top exists, no subclause or sub-subclause is open
AtBareTop == current_top # 0 /\ current_sub = None /\ current_subsub = None

\* C33: whenever owner capture is active, current_top is the node created from the
\* Process Owner heading; whenever designee capture is active, current_top is the
\* synthetic node headed "Process Designees"; in both cases current_sub and
\* current_subsub are null, and a buffer is non-empty only while its own capture flag
\* is true
C33_CaptureAnchoring ==
    /\ capturing_owner_block
           => /\ AtBareTop
              /\ current_top = Len(sections)
              /\ TopStartsWith("process owner")
              /\ sections[current_top].heading = Strip(consumed[sections[current_top].para].text)
    /\ capturing_designee_block
           => /\ AtBareTop
              /\ current_top = Len(sections)
              /\ sections[current_top].heading = "Process Designees"
              /\ PROCESS_DESIGNEE_PATTERN(
                     Analyse(consumed[sections[current_top].para]).stripped)
    /\ owner_buffer # << >> => capturing_owner_block
    /\ designee_buffer # << >> => capturing_designee_block

\* owner capture is active with a buffered line, anchored at "3. Process Owner"
C33_Witness ==
    /\ pc = "pass"
    /\ capturing_owner_block
    /\ owner_buffer = << "Alice, Bob", "Dave" >>
    /\ current_top = 2
    /\ sections[2].heading = "3. Process Owner"
    /\ sections[2].children = << >>

(***************************************************************************)
(* C34. The pass starts at Definitions and current_top is never null.      *)
(***************************************************************************)
\* the prefix-stripped lower-cased text of the paragraph starts with "definitions"
IsDefinitionsHeading(p) ==
    StartsWith(normalize(strip_numeric_prefix(p.text)), "definitions")

\* the pass is given the paragraphs from the first Definitions heading on, or nothing
\* when there is none
StartsAtDefinitions ==
    IF \E k \in 1..Len(paras) : IsDefinitionsHeading(paras[k])
    THEN LET k == CHOOSE j \in 1..Len(paras) :
                      /\ IsDefinitionsHeading(paras[j])
                      /\ \A i \in 1..(j - 1) : ~IsDefinitionsHeading(paras[i])
         IN  Remaining(paras) = SubSeq(paras, k, Len(paras))
    ELSE Remaining(paras) = << >>

\* C34: the pass starts at the first paragraph whose prefix-stripped lower-cased text
\* starts with "definitions"; that paragraph always creates the first top-level node,
\* and from then on current_top is never null, so the unguarded appends to
\* current_top["children"] never run with a null top and the pass raises no exception
C34_TopNeverNull ==
    /\ pc = "load" => StartsAtDefinitions
    /\ pc # "failed"
    /\ consumed # << >>
           => /\ consumed[1] = Remaining(paras)[1]
              /\ IsDefinitionsHeading(consumed[1])
              /\ sections # << >>
              /\ sections[1].para = 1
              /\ sections[1].heading = Strip(consumed[1].text)
              /\ current_top # 0
    /\ sections # << >> => consumed # << >>

\* the pass has started at the emphasized "Definitions" behind a title and a purpose
\* block, and the end-of-input flush has appended to current_top["children"]
C34_Witness ==
    /\ pc = "done"
    /\ Len(paras) = 5
    /\ paras[1].text = "Safety Manual"
    /\ ConsumedTexts = << "Definitions", "3. Process Owner", "Alice" >>
    /\ Headings(sections) = << "Definitions", "3. Process Owner" >>
    /\ Headings(sections[2].children) = << "Alice" >>

(***************************************************************************)
(* C35. Definitions mode consumes everything.                              *)
(***************************************************************************)
\* the node is a Definitions node
IsDefinitionsNode(node) == StartsWith(HeadKey(node), "definitions")

\* the node has no content, and its children have neither content nor children
OnlyChildHeadings(node) ==
    /\ node.content = << >>
    /\ \A i \in 1..Len(node.children) :
           /\ node.children[i].content = << >>
           /\ node.children[i].children = << >>

\* C35: while the current top is a Definitions node, every paragraph that neither
\* starts a new top-level node nor is skipped is turned into a child heading or a
\* heading continuation, whatever its emphasis or numbering: the tree gains no node
\* but at most one child of the Definitions node; so the Definitions node and all its
\* children keep empty content, its children have no children, and current_subsub
\* stays null
C35_DefinitionsConsumeAll ==
    /\ [](/\ \A t \in 1..Len(sections) :
                 (IsDefinitionsNode(sections[t]) => OnlyChildHeadings(sections[t]))
           /\ (TopStartsWith("definitions") => current_subsub = None))
    /\ [][(/\ ParagraphStep
            /\ TopStartsWith("definitions")
            /\ ~StartsNewTop
            /\ ~IsSkipped(ThisPara))
           => /\ current_sub' = << current_top, Len(sections'[current_top].children) >>
              /\ Len(sections'[current_top].children)
                     \in { Len(sections[current_top].children),
                           Len(sections[current_top].children) + 1 }
              /\ CountNodes(sections') \in { CountNodes(sections), CountNodes(sections) + 1 }
              /\ LET last == sections'[current_top].children[Len(sections'[current_top].children)]
                     text == Strip(ThisPara.text)
                 IN  /\ Len(last.heading) >= Len(text)
                     /\ SubSeq(last.heading, Len(last.heading) - Len(text) + 1,
                               Len(last.heading)) = text]_vars

\* emphasized numbered paragraphs under Definitions have become one child heading
C35_Witness ==
    /\ ConsumedTexts = << "2. Definitions", "4.1 Step", "4.1.1 Detail", "Do it" >>
    /\ consumed[2].bold /\ consumed[3].bold
    /\ Len(sections) = 1
    /\ Headings(sections[1].children) = << "4.1 Step 4.1.1 Detail Do it" >>
    /\ current_sub = << 1, 1 >>

(***************************************************************************)
(* C36. Bounded depth.                                                     *)
(***************************************************************************)
\* the number of levels of the tree
RECURSIVE Depth(_)
Depth(nodes) ==
    IF nodes = << >> THEN 0
    ELSE LET below == 1 + Depth(Head(nodes).children)
             beside == Depth(Tail(nodes))
         IN  IF below > beside THEN below ELSE beside

\* the number of nodes below the second level
RECURSIVE CountBelowChildren(_)
CountBelowChildren(tops) ==
    IF tops = << >> THEN 0
    ELSE CountNodes(Head(tops).children) - Len(Head(tops).children)
         + CountBelowChildren(Tail(tops))

\* the creating paragraphs of the nodes, in the shape of the tree
RECURSIVE Creators(_)
Creators(nodes) ==
    [i \in 1..Len(nodes) |-> << nodes[i].para, Creators(nodes[i].children) >>]

\* new is old with nodes appended at the end of some child lists: no node of old has
\* moved, and every added node was created by a paragraph later than `before`
RECURSIVE GrownFrom(_, _, _)
GrownFrom(old, new, before) ==
    /\ Len(new) >= Len(old)
    /\ \A i \in 1..Len(old) :
           /\ new[i][1] = old[i][1]
           /\ GrownFrom(old[i][2], new[i][2], before)
    /\ \A i \in (Len(old) + 1)..Len(new) :
           /\ new[i][1] > before
           /\ GrownFrom(<< >>, new[i][2], before)

\* the cursors point into the tree, each below the one above it
CursorsNested ==
    /\ current_top \in 0..Len(sections)
    /\ current_top # 0 => current_top = Len(sections)
    /\ current_sub # None
           => /\ current_sub[1] = current_top
              /\ current_sub[2] \in 1..Len(sections[current_top].children)
    /\ current_subsub # None
           => /\ current_sub # None
              /\ SubSeq(current_subsub, 1, 2) = current_sub
              /\ current_subsub[3]
                     \in 1..Len(sections[current_sub[1]].children[current_sub[2]].children)

\* C36: in every reachable state the tree has at most three levels (top-level node,
\* child, grandchild); a grandchild is only ever created as a child of current_sub by
\* the emphasized ThreeLevel rule and never has children of its own, and no node is
\* owned by more than one parent: the cursors stay nested in the current top, a node
\* never moves from the place where it was appended, and every place added by a step
\* holds a node created by that step
C36_BoundedDepth ==
    /\ [](Depth(sections) <= 3 /\ CursorsNested)
    /\ [][CountBelowChildren(sections') # CountBelowChildren(sections)
           => /\ ParagraphStep
              /\ current_sub # None
              /\ AsSubSubClause(Analyse(ThisPara))
              /\ NestedUnderSub(Analyse(ThisPara))
              /\ CountBelowChildren(sections') = CountBelowChildren(sections) + 1]_vars
    /\ [][GrownFrom(Creators(sections), Creators(sections'), Len(consumed))]_vars

\* a second grandchild has been added beside the first, under the same subclause
C36_Witness ==
    /\ ConsumedTexts = << "2. Definitions", "4. Procedures", "4.1 Step", "4.1.1 Detail",
                          "4.1.1 Detail" >>
    /\ consumed[4].bold /\ consumed[5].bold
    /\ Depth(sections) = 3
    /\ Len(sections[2].children[1].children) = 2
    /\ current_subsub = << 2, 1, 2 >>

(***************************************************************************)
(* C37. GUI processing protocol.                                           *)
(***************************************************************************)
BothDisabled == select_btn = "disabled" /\ process_btn = "disabled"

BothEnabled == select_btn = "normal" /\ process_btn = "normal"

\* C37: on_process disables both buttons before it starts the background thread, so
\* at most one processing thread runs at a time, and the buttons are re-enabled when
\* that run ends in any way (all files processed, no .docx found, or a failure), so
\* the application never stays locked
C37_ProcessingProtocol ==
    /\ [](/\ threads \in {0, 1}
           /\ ((threads = 1) <=> (folder_pc # "idle"))
           /\ ((process_btn = "normal") <=> (threads = 0))
           /\ (select_btn = "disabled" => process_btn = "disabled"))
    /\ [][threads' > threads => (threads = 0 /\ BothEnabled /\ BothDisabled')]_vars
    /\ [][threads' < threads => BothEnabled']_vars
    /\ (~BothEnabled) ~> BothEnabled

\* a run that failed on the second of three files has ended and the buttons are
\* enabled again
C37_Witness ==
    /\ BothEnabled
    /\ threads = 0
    /\ folder_pc = "idle"
    /\ docx_files = << "good", "unreadable", "good" >>
    /\ messages = << ShowError(2) >>
    /\ outputs = << 1 >>

(***************************************************************************)
(* C38. Saving never overwrites.                                           *)
(***************************************************************************)
\* the k-th name of the sequence <stem>-copy<ext>, <stem>-copy2<ext>, ...
NthCopy(path, k) ==
    IF k = 1 THEN (stem(path) \o "-copy") \o suffix(path)
    ELSE ((stem(path) \o "-copy") \o IntToStr(k)) \o suffix(path)

\* the first name of the sequence that no file of the folder has
FirstFreeCopy(path, folder) ==
    LET k == CHOOSE n \in 1..(Cardinality(folder) + 1) :
                 /\ NthCopy(path, n) \notin folder
                 /\ \A j \in 1..(n - 1) : NthCopy(path, j) \in folder
    IN  NthCopy(path, k)

\* C38: populate_template never overwrites an existing output file: if output_path
\* does not exist it saves there; otherwise it saves to the first non-existing name in
\* the sequence <stem>-copy<ext>, <stem>-copy2<ext>, <stem>-copy3<ext>, ..., and the
\* files that existed before the call are unchanged
C38_NeverOverwrites ==
    [][files' # files
       => LET target == IF requested \in DOMAIN files
                        THEN FirstFreeCopy(requested, DOMAIN files)
                        ELSE requested
          IN  /\ target \notin DOMAIN files
              /\ DOMAIN files' = DOMAIN files \cup {target}
              /\ files'[target] = "new"
              /\ \A n \in DOMAIN files : files'[n] = files[n]]_vars

\* "a.docx", "a-copy.docx" and "a-copy2.docx" existed and the document went to
\* "a-copy3.docx", beside an unrelated "a-copy1.docx"
C38_Witness ==
    /\ save_pc = "done"
    /\ requested = "a.docx"
    /\ files = [n \in {"a.docx", "a-copy.docx", "a-copy1.docx", "a-copy2.docx",
                        "a-copy3.docx"}
                  |-> IF n = "a-copy3.docx" THEN "new" ELSE "old"]

(***************************************************************************)
(* C39. The shrink window of the intro block.                              *)
(***************************************************************************)
\* the call has returned on a document that has a "Definitions" paragraph and a
\* Revision-History table
FittedDocument == fit_pc = "done" /\ has_definitions /\ rev_font # 0

\* C39: _fit_intro_sections_to_page shrinks the Revision-History table to 10 pt
\* exactly when the estimated line count of the intro block is between 47 and 70
\* inclusive; with 46 lines or fewer, or more than 70, the document is left untouched.
\* The code returns early for 38 lines or fewer: between 39 and 46 lines it shrinks
\* the table.
C39_ShrinkWindow ==
    FittedDocument => (rev_font = 10 <=> EstimatedLines(intro) \in 47..70)

====
